---------------------------- MODULE Spec2Model ----------------------------
(***************************************************************************)
(* ghostbind: the build-artifact resolution and manifest-synthesis         *)
(* pipeline (src/src/cli.rs build_command and the modules it drives).      *)
(*                                                                         *)
(* Representation.  A Rust String / PathBuf is a sequence of atoms; an     *)
(* atom is a TLA+ string standing for an indivisible run of characters     *)
(* ("x86_64", "linux", "-", "/", ".a").  The atoms used are chosen so that *)
(* no pattern the code searches for ("linux", "musl", "msvc", ...) can     *)
(* straddle two atoms, so substring search over atoms is substring search  *)
(* over the characters.  Option<T> is a sequence of length 0 (None) or 1   *)
(* (Some).  Result<T> is a record [ok |-> BOOLEAN, val |-> T].             *)
(***************************************************************************)
EXTENDS Naturals, Sequences, FiniteSets, TLC

VARIABLES host, fs, inv, api

vars == <<host, fs, inv, api>>

(***************************************************************************)
(* Strings, Option, Result                                                 *)
(***************************************************************************)
None == <<>>

Some(x) == <<x>>

IsSome(o) == Len(o) = 1

Unwrap(o) == o[1]

Ok(v) == [ok |-> TRUE, val |-> v]

Err(e) == [ok |-> FALSE, val |-> e]

\* str::contains(pat)
Contains(s, pat) ==
    \E i \in 1..(Len(s) + 1) :
        /\ i + Len(pat) - 1 <= Len(s)
        /\ SubSeq(s, i, i + Len(pat) - 1) = pat

\* A triple literal: its parts joined by '-'
RECURSIVE Hy(_)
Hy(parts) ==
    IF Len(parts) = 0 THEN <<>>
    ELSE IF Len(parts) = 1 THEN <<parts[1]>>
    ELSE <<parts[1], "-">> \o Hy(Tail(parts))

\* slice.join(sep) over Strings
RECURSIVE StrJoin(_, _)
StrJoin(strs, sep) ==
    IF Len(strs) = 0 THEN <<>>
    ELSE IF Len(strs) = 1 THEN strs[1]
    ELSE strs[1] \o sep \o StrJoin(Tail(strs), sep)

\* Mutant: the name is used as it is
ReplaceHyphens_unchanged(s) == s

\* str::replace('-', "_")
ReplaceHyphens(s) == [i \in 1..Len(s) |-> IF s[i] = "-" THEN "_" ELSE s[i]]

(***************************************************************************)
(* The platform the binary was compiled for: cfg!(target_os), target_arch  *)
(***************************************************************************)
Hosts ==
    { [os |-> "linux",   arch |-> "x86_64"],
      [os |-> "macos",   arch |-> "aarch64"],
      [os |-> "windows", arch |-> "x86_64"],
      [os |-> "linux",   arch |-> "aarch64"] }

\* std::path::MAIN_SEPARATOR of the host
MainSep(h) == IF h.os = "windows" THEN "\\" ELSE "/"

\* std::path::is_separator of the host
IsSep(h, a) == a = "/" \/ (h.os = "windows" /\ a = "\\")

\* PathBuf::join (PathBuf::push): an absolute argument replaces the path,
\* otherwise a separator is added unless the path is empty or ends in one
PathJoin(h, p, s) ==
    IF Len(s) > 0 /\ IsSep(h, s[1]) THEN s
    ELSE IF Len(p) = 0 \/ IsSep(h, p[Len(p)]) THEN p \o s
    ELSE p \o <<MainSep(h)>> \o s

\* Index of the last separator that has a non-separator after it, 0 if none
LastSepIndex(h, p) ==
    LET idx == { i \in 1..Len(p) :
                    /\ IsSep(h, p[i])
                    /\ \E j \in (i + 1)..Len(p) : ~IsSep(h, p[j]) }
    IN  IF idx = {} THEN 0 ELSE CHOOSE i \in idx : \A j \in idx : j <= i

\* Path::parent: the path without its final component, None for a root or
\* the empty path; Some("") for a single relative component
PathParent(h, p) ==
    IF Len(p) = 0 \/ (\A i \in 1..Len(p) : IsSep(h, p[i])) THEN None
    ELSE LET k == LastSepIndex(h, p)
         IN  IF k = 0 THEN Some(<<>>)
             ELSE IF \A i \in 1..k : IsSep(h, p[i]) THEN Some(SubSeq(p, 1, 1))
             ELSE LET e == CHOOSE i \in 1..k :
                               /\ ~IsSep(h, p[i])
                               /\ \A j \in (i + 1)..k : IsSep(h, p[j])
                  IN  Some(SubSeq(p, 1, e))

(***************************************************************************)
(* target_mapping.rs                                                       *)
(***************************************************************************)
\* TargetMapping::new: the inserts, in order
MappingInserts ==
    << <<Hy(<<"x86_64", "linux", "gnu">>),    Hy(<<"x86_64", "unknown", "linux", "gnu">>)>>,
       <<Hy(<<"x86_64", "linux", "musl">>),   Hy(<<"x86_64", "unknown", "linux", "musl">>)>>,
       <<Hy(<<"aarch64", "linux", "gnu">>),   Hy(<<"aarch64", "unknown", "linux", "gnu">>)>>,
       <<Hy(<<"aarch64", "linux", "musl">>),  Hy(<<"aarch64", "unknown", "linux", "musl">>)>>,
       <<Hy(<<"i386", "linux", "gnu">>),      Hy(<<"i686", "unknown", "linux", "gnu">>)>>,
       <<Hy(<<"x86_64", "macos">>),           Hy(<<"x86_64", "apple", "darwin">>)>>,
       <<Hy(<<"aarch64", "macos">>),          Hy(<<"aarch64", "apple", "darwin">>)>>,
       <<Hy(<<"x86_64", "windows", "gnu">>),  Hy(<<"x86_64", "pc", "windows", "gnu">>)>>,
       <<Hy(<<"x86_64", "windows", "msvc">>), Hy(<<"x86_64", "pc", "windows", "msvc">>)>>,
       <<Hy(<<"i386", "windows", "gnu">>),    Hy(<<"i686", "pc", "windows", "gnu">>)>>,
       <<Hy(<<"i386", "windows", "msvc">>),   Hy(<<"i686", "pc", "windows", "msvc">>)>>,
       <<Hy(<<"aarch64", "windows">>),        Hy(<<"aarch64", "pc", "windows", "msvc">>)>>,
       <<Hy(<<"x86_64", "freebsd">>),         Hy(<<"x86_64", "unknown", "freebsd">>)>> >>

\* HashMap::get on the map the inserts build: the last insert of a key wins
HashMapGet(inserts, key) ==
    LET hits == { i \in 1..Len(inserts) : inserts[i][1] = key }
    IN  IF hits = {} THEN None
        ELSE Some(inserts[CHOOSE i \in hits : \A j \in hits : j <= i][2])

map_target(zig_target) == HashMapGet(MappingInserts, zig_target)

\* Mutant: the lookup is forgotten and the input always passed through
map_target_or_default_passthrough(zig_target) == zig_target

map_target_or_default(zig_target) ==
    IF IsSome(map_target(zig_target)) THEN Unwrap(map_target(zig_target))
    ELSE zig_target

supported_targets == { MappingInserts[i][1] : i \in 1..Len(MappingInserts) }

(***************************************************************************)
(* The file system: a function from the paths that exist to their entry.   *)
(* The working directory (the empty relative path) always exists.          *)
(***************************************************************************)
DirEntry == [type |-> "dir"]

FileEntry(data) == [type |-> "file", data |-> data]

\* Path::exists
Exists(f, p) == Len(p) = 0 \/ p \in DOMAIN f

IsDir(f, p) == Len(p) = 0 \/ (p \in DOMAIN f /\ f[p].type = "dir")

\* The path and every ancestor Path::parent reaches from it
RECURSIVE Ancestors(_, _)
Ancestors(h, p) ==
    IF Len(p) = 0 THEN {}
    ELSE {p} \cup (IF IsSome(PathParent(h, p))
                   THEN Ancestors(h, Unwrap(PathParent(h, p)))
                   ELSE {})

\* fs::create_dir_all without an I/O fault: every missing ancestor becomes a
\* directory; an ancestor that exists and is no directory is an error
create_dir_all(h, f, p) ==
    IF \E a \in Ancestors(h, p) : Exists(f, a) /\ ~IsDir(f, a)
    THEN Err(f)
    ELSE Ok([a \in (DOMAIN f) \cup Ancestors(h, p) |->
                IF a \in DOMAIN f THEN f[a] ELSE DirEntry])

\* fs::write / the destination side of fs::copy without an I/O fault: the
\* parent must be an existing directory and the path no directory
WriteFile(h, f, p, data) ==
    IF \/ ~IsSome(PathParent(h, p))
       \/ ~IsDir(f, Unwrap(PathParent(h, p)))
       \/ (Exists(f, p) /\ IsDir(f, p))
    THEN Err(f)
    ELSE Ok([a \in (DOMAIN f) \cup {p} |->
                IF a = p THEN FileEntry(data) ELSE f[a]])

\* Mutant: the file is moved, the source is gone afterwards
CopyFile_move(h, f, from, to) ==
    IF ~Exists(f, from) \/ IsDir(f, from) THEN Err(f)
    ELSE LET w == WriteFile(h, f, to, f[from].data)
         IN  IF ~w.ok \/ from = to THEN w
             ELSE Ok([a \in (DOMAIN w.val) \ {from} |-> w.val[a]])

\* fs::copy without an I/O fault: the source must be an existing file
CopyFile(h, f, from, to) ==
    IF ~Exists(f, from) \/ IsDir(f, from) THEN Err(f)
    ELSE WriteFile(h, f, to, f[from].data)

(***************************************************************************)
(* cargo_integration.rs                                                    *)
(***************************************************************************)
BuildProfiles == {"Debug", "Release"}

\* BuildProfile::as_str
profile_as_str(profile) ==
    IF profile = "Debug" THEN <<"debug">> ELSE <<"release">>

StaticLibKind == [tag |-> "StaticLib"]

CdyLibKind == [tag |-> "CdyLib"]

BinKind == [tag |-> "Bin"]

OtherKind(raw) == [tag |-> "Other", raw |-> raw]

\* The first recognized tag of the list, scanning from index i
RECURSIVE FirstRecognized(_, _)
FirstRecognized(kinds, i) ==
    IF i > Len(kinds) THEN None
    ELSE IF kinds[i] = <<"staticlib">> THEN Some(StaticLibKind)
    ELSE IF kinds[i] = <<"cdylib">> THEN Some(CdyLibKind)
    ELSE IF kinds[i] = <<"bin">> THEN Some(BinKind)
    ELSE FirstRecognized(kinds, i + 1)

\* TargetKind::from_cargo_kinds
from_cargo_kinds(kinds) ==
    IF IsSome(FirstRecognized(kinds, 1)) THEN Unwrap(FirstRecognized(kinds, 1))
    ELSE OtherKind(StrJoin(kinds, <<",">>))

\* TargetKind::is_library
is_library(kind) == kind.tag \in {"StaticLib", "CdyLib"}

\* The filter closure of extract_crate_info
HasLibraryTag(target) ==
    \E i \in 1..Len(target.kind) :
        target.kind[i] = <<"staticlib">> \/ target.kind[i] = <<"cdylib">>

\* Iterator::filter with that closure, order kept
RECURSIVE FilterLibraryTargets(_)
FilterLibraryTargets(targets) ==
    IF Len(targets) = 0 THEN <<>>
    ELSE (IF HasLibraryTag(targets[1]) THEN <<targets[1]>> ELSE <<>>)
         \o FilterLibraryTargets(Tail(targets))

\* extract_crate_info, once the package of the manifest path is found:
\* pkg is the cargo_metadata package [name, targets: each [name, kind: tags]]
extract_crate_info(pkg, manifest_dir, target_directory) ==
    LET kept == FilterLibraryTargets(pkg.targets)
    IN  [ name |-> pkg.name,
          targets |-> [i \in 1..Len(kept) |->
                          [ name |-> kept[i].name,
                            kind |-> from_cargo_kinds(kept[i].kind) ]],
          manifest_dir |-> manifest_dir,
          target_directory |-> target_directory ]

\* CargoBuilder::new and the builder methods: the fields of the builder the
\* pipeline sets (features and no_default_features only reach cargo's flags)
CargoBuilder_new(manifest_path) ==
    [manifest_path |-> manifest_path, target |-> None, profile |-> "Release"]

CargoBuilder_target(b, target) == [b EXCEPT !.target = Some(target)]

CargoBuilder_profile(b, profile) == [b EXCEPT !.profile = profile]

(***************************************************************************)
(* artifact_discovery.rs                                                   *)
(***************************************************************************)
CacheDir == <<".ghostbind", "/", "cache">>

\* ArtifactKind::from_target_kind
from_target_kind(target_kind) ==
    IF target_kind.tag = "StaticLib" THEN Some("StaticLib")
    ELSE IF target_kind.tag = "CdyLib" THEN Some("DynamicLib")
    ELSE None

\* ArtifactKind::as_str
kind_as_str(kind) ==
    IF kind = "StaticLib" THEN <<"staticlib">> ELSE <<"cdylib">>

\* ArtifactDiscovery::new
ArtifactDiscovery_new(target_dir, target_triple, profile) ==
    [ target_dir |-> target_dir,
      target_triple |-> target_triple,
      profile |-> profile,
      cache_dir |-> CacheDir ]

\* Mutant: the triple segment is never added
get_build_directory_flat(h, d) ==
    PathJoin(h, d.target_dir, profile_as_str(d.profile))

\* ArtifactDiscovery::get_build_directory
get_build_directory(h, d) ==
    LET build_dir == IF IsSome(d.target_triple)
                     THEN PathJoin(h, d.target_dir, Unwrap(d.target_triple))
                     ELSE d.target_dir
    IN  PathJoin(h, build_dir, profile_as_str(d.profile))

\* ArtifactDiscovery::get_library_patterns
get_library_patterns(h, crate_name, kind) ==
    LET normalized_name == ReplaceHyphens(crate_name)
    IN  IF kind = "StaticLib"
        THEN IF h.os = "windows"
             THEN << normalized_name \o <<".", "lib">> >>
             ELSE << <<"lib">> \o normalized_name \o <<".", "a">> >>
        ELSE IF h.os = "windows"
             THEN << normalized_name \o <<".", "dll">>,
                     normalized_name \o <<".", "dll", ".", "lib">> >>
             ELSE IF h.os = "macos"
             THEN << <<"lib">> \o normalized_name \o <<".", "dylib">> >>
             ELSE << <<"lib">> \o normalized_name \o <<".", "so">> >>

\* ArtifactDiscovery::get_artifact_extension
get_artifact_extension(h, kind) ==
    IF kind = "StaticLib"
    THEN IF h.os = "windows" THEN <<"lib">> ELSE <<"a">>
    ELSE IF h.os = "windows" THEN <<"dll">>
         ELSE IF h.os = "macos" THEN <<"dylib">>
         ELSE <<"so">>

\* Mutant: the profile segment is left out
get_cache_path_no_profile(h, d, crate_name, kind) ==
    LET target_str == IF IsSome(d.target_triple) THEN Unwrap(d.target_triple)
                      ELSE <<"native">>
    IN  PathJoin(h, PathJoin(h, d.cache_dir, target_str),
                 crate_name \o <<".">> \o get_artifact_extension(h, kind))

\* ArtifactDiscovery::get_cache_path
get_cache_path(h, d, crate_name, kind) ==
    LET target_str == IF IsSome(d.target_triple) THEN Unwrap(d.target_triple)
                      ELSE <<"native">>
    IN  PathJoin(h,
            PathJoin(h, PathJoin(h, d.cache_dir, target_str),
                     profile_as_str(d.profile)),
            crate_name \o <<".">> \o get_artifact_extension(h, kind))

\* Mutant: only the first candidate is probed
find_artifact_primary_only(h, d, f, crate_name, kind) ==
    LET build_dir == get_build_directory(h, d)
        lib_patterns == get_library_patterns(h, crate_name, kind)
    IN  IF Exists(f, PathJoin(h, build_dir, lib_patterns[1]))
        THEN Ok([ name |-> crate_name,
                  kind |-> kind,
                  original_path |-> PathJoin(h, build_dir, lib_patterns[1]),
                  cached_path |-> get_cache_path(h, d, crate_name, kind) ])
        ELSE Err([ what |-> "Could not find artifact",
                   kind |-> kind_as_str(kind),
                   crate |-> crate_name,
                   dir |-> build_dir ])

\* ArtifactDiscovery::find_artifact: the first candidate that exists, else an
\* error made of the kind, the crate name and the directory searched
find_artifact(h, d, f, crate_name, kind) ==
    LET build_dir == get_build_directory(h, d)
        lib_patterns == get_library_patterns(h, crate_name, kind)
        found == { i \in 1..Len(lib_patterns) :
                      Exists(f, PathJoin(h, build_dir, lib_patterns[i])) }
    IN  IF found # {}
        THEN LET first == CHOOSE i \in found : \A j \in found : i <= j
             IN  Ok([ name |-> crate_name,
                      kind |-> kind,
                      original_path |-> PathJoin(h, build_dir, lib_patterns[first]),
                      cached_path |-> get_cache_path(h, d, crate_name, kind) ])
        ELSE Err([ what |-> "Could not find artifact",
                   kind |-> kind_as_str(kind),
                   crate |-> crate_name,
                   dir |-> build_dir ])

\* Mutant: a target whose file is missing is skipped
RECURSIVE DiscoverFrom_skip_missing(_, _, _, _, _, _)
DiscoverFrom_skip_missing(h, d, f, targets, i, acc) ==
    IF i > Len(targets) THEN Ok(acc)
    ELSE IF ~is_library(targets[i].kind)
         THEN DiscoverFrom_skip_missing(h, d, f, targets, i + 1, acc)
    ELSE IF ~IsSome(from_target_kind(targets[i].kind))
         THEN DiscoverFrom_skip_missing(h, d, f, targets, i + 1, acc)
    ELSE LET r == find_artifact(h, d, f, targets[i].name,
                                Unwrap(from_target_kind(targets[i].kind)))
         IN  DiscoverFrom_skip_missing(h, d, f, targets, i + 1,
                                       IF r.ok THEN Append(acc, r.val) ELSE acc)

\* ArtifactDiscovery::discover_artifacts from target i on, artifacts so far acc
RECURSIVE DiscoverFrom(_, _, _, _, _, _)
DiscoverFrom(h, d, f, targets, i, acc) ==
    IF i > Len(targets) THEN Ok(acc)
    ELSE IF ~is_library(targets[i].kind)
         THEN DiscoverFrom(h, d, f, targets, i + 1, acc)
    ELSE IF ~IsSome(from_target_kind(targets[i].kind))
         THEN DiscoverFrom(h, d, f, targets, i + 1, acc)
    ELSE LET r == find_artifact(h, d, f, targets[i].name,
                                Unwrap(from_target_kind(targets[i].kind)))
         IN  IF r.ok THEN DiscoverFrom(h, d, f, targets, i + 1, Append(acc, r.val))
             ELSE r

discover_artifacts(h, d, f, crate_info) ==
    DiscoverFrom(h, d, f, crate_info.targets, 1, <<>>)

(***************************************************************************)
(* manifest.rs                                                             *)
(***************************************************************************)
\* Mutant: the MSVC runtime libraries are never added
get_system_link_libs_no_msvc(rustc_target) ==
    IF Contains(rustc_target, <<"linux">>)
    THEN <<<<"pthread">>, <<"dl">>, <<"m">>, <<"c">>>>
    ELSE IF Contains(rustc_target, <<"darwin">>) \/ Contains(rustc_target, <<"macos">>)
    THEN <<<<"System">>, <<"pthread">>, <<"c">>>>
    ELSE IF Contains(rustc_target, <<"windows">>)
    THEN <<<<"kernel32">>, <<"user32">>, <<"shell32">>, <<"msvcrt">>>>
    ELSE IF Contains(rustc_target, <<"freebsd">>)
    THEN <<<<"pthread">>, <<"c">>, <<"m">>>>
    ELSE <<>>

\* Mutant: the darwin/macos branch is missing
get_system_link_libs_no_darwin(rustc_target) ==
    IF Contains(rustc_target, <<"linux">>)
    THEN <<<<"pthread">>, <<"dl">>, <<"m">>, <<"c">>>>
    ELSE IF Contains(rustc_target, <<"windows">>)
    THEN <<<<"kernel32">>, <<"user32">>, <<"shell32">>, <<"msvcrt">>>>
         \o (IF Contains(rustc_target, <<"msvc">>)
             THEN <<<<"vcruntime">>, <<"ucrt">>>>
             ELSE <<>>)
    ELSE IF Contains(rustc_target, <<"freebsd">>)
    THEN <<<<"pthread">>, <<"c">>, <<"m">>>>
    ELSE <<>>

\* Mutant: an unrecognized triple gets the C library instead of nothing
get_system_link_libs_default_c(rustc_target) ==
    IF Contains(rustc_target, <<"linux">>)
    THEN <<<<"pthread">>, <<"dl">>, <<"m">>, <<"c">>>>
    ELSE IF Contains(rustc_target, <<"darwin">>) \/ Contains(rustc_target, <<"macos">>)
    THEN <<<<"System">>, <<"pthread">>, <<"c">>>>
    ELSE IF Contains(rustc_target, <<"windows">>)
    THEN <<<<"kernel32">>, <<"user32">>, <<"shell32">>, <<"msvcrt">>>>
         \o (IF Contains(rustc_target, <<"msvc">>)
             THEN <<<<"vcruntime">>, <<"ucrt">>>>
             ELSE <<>>)
    ELSE IF Contains(rustc_target, <<"freebsd">>)
    THEN <<<<"pthread">>, <<"c">>, <<"m">>>>
    ELSE <<<<"c">>>>

\* ManifestGenerator::get_system_link_libs
get_system_link_libs(rustc_target) ==
    IF Contains(rustc_target, <<"linux">>)
    THEN <<<<"pthread">>, <<"dl">>, <<"m">>>>
         \o (IF Contains(rustc_target, <<"musl">>) THEN <<<<"c">>>> ELSE <<<<"c">>>>)
    ELSE IF Contains(rustc_target, <<"darwin">>) \/ Contains(rustc_target, <<"macos">>)
    THEN <<<<"System">>, <<"pthread">>, <<"c">>>>
    ELSE IF Contains(rustc_target, <<"windows">>)
    THEN <<<<"kernel32">>, <<"user32">>, <<"shell32">>, <<"msvcrt">>>>
         \o (IF Contains(rustc_target, <<"msvc">>)
             THEN <<<<"vcruntime">>, <<"ucrt">>>>
             ELSE <<>>)
    ELSE IF Contains(rustc_target, <<"freebsd">>)
    THEN <<<<"pthread">>, <<"c">>, <<"m">>>>
    ELSE <<>>

\* Mutant: the artifact field is the build-output path
generate_manifest_original_path(crate_name, artifact, headers, rustc_target) ==
    Ok([ crate_name |-> crate_name,
         kind |-> kind_as_str(artifact.kind),
         artifact |-> artifact.original_path,
         headers |-> [i \in 1..Len(headers) |-> headers[i].header_path],
         rustc_target |-> rustc_target,
         link_libs |-> get_system_link_libs(rustc_target),
         link_search |-> <<>> ])

\* ManifestGenerator::generate_manifest: always Ok
generate_manifest(crate_name, artifact, headers, rustc_target) ==
    Ok([ crate_name |-> crate_name,
         kind |-> kind_as_str(artifact.kind),
         artifact |-> artifact.cached_path,
         headers |-> [i \in 1..Len(headers) |-> headers[i].header_path],
         rustc_target |-> rustc_target,
         link_libs |-> get_system_link_libs(rustc_target),
         link_search |-> <<>> ])

\* Mutant: the triple is ignored, every manifest goes under "native"
get_manifest_path_native(h, crate_name, target_triple) ==
    PathJoin(h, PathJoin(h, CacheDir, <<"native">>),
             crate_name \o <<"-", "manifest", ".", "json">>)

\* ManifestGenerator::get_manifest_path
get_manifest_path(h, crate_name, target_triple) ==
    LET target_str == IF IsSome(target_triple) THEN Unwrap(target_triple)
                      ELSE <<"native">>
    IN  PathJoin(h, PathJoin(h, CacheDir, target_str),
                 crate_name \o <<"-", "manifest", ".", "json">>)

\* Mutant: the loop over the headers is missing
validate_manifest_artifact_only(f, manifest) ==
    IF ~Exists(f, manifest.artifact)
    THEN Err([what |-> "Artifact file does not exist", path |-> manifest.artifact])
    ELSE Ok(<<>>)

\* ManifestGenerator::validate_manifest: the artifact first, then the headers
\* in order; the error names the first path that does not exist
validate_manifest(f, manifest) ==
    IF ~Exists(f, manifest.artifact)
    THEN Err([what |-> "Artifact file does not exist", path |-> manifest.artifact])
    ELSE LET missing == { i \in 1..Len(manifest.headers) :
                             ~Exists(f, manifest.headers[i]) }
         IN  IF missing # {}
             THEN Err([ what |-> "Header file does not exist",
                        path |-> manifest.headers[CHOOSE i \in missing :
                                                     \A j \in missing : i <= j] ])
             ELSE Ok(<<>>)

(***************************************************************************)
(* serde_json, as far as BuildManifest uses it.  A JSON text is a sequence *)
(* of atoms; the quote and the backslash are atoms of their own.           *)
(***************************************************************************)
NonUtf8 == "<non-utf8>"

\* serde's Serialize for Path: to_str() fails on a path that is not UTF-8
IsUtf8(p) == \A i \in 1..Len(p) : p[i] # NonUtf8

\* Mutant: the quote is written unescaped
RECURSIVE JsonEscape_quote_unescaped(_)
JsonEscape_quote_unescaped(s) ==
    IF Len(s) = 0 THEN <<>>
    ELSE (IF s[1] = "\\" THEN <<"\\", "\\">> ELSE <<s[1]>>)
         \o JsonEscape_quote_unescaped(Tail(s))

\* serde_json's string escaping
RECURSIVE JsonEscape(_)
JsonEscape(s) ==
    IF Len(s) = 0 THEN <<>>
    ELSE (IF s[1] = "\"" THEN <<"\\", "\"">>
          ELSE IF s[1] = "\\" THEN <<"\\", "\\">>
          ELSE <<s[1]>>) \o JsonEscape(Tail(s))

JsonString(s) == <<"\"">> \o JsonEscape(s) \o <<"\"">>

\* PrettyFormatter: an array of strings at one level of nesting
RECURSIVE JsonItems(_)
JsonItems(strs) ==
    IF Len(strs) = 0 THEN <<>>
    ELSE <<"\n", "  ", "  ">> \o JsonString(strs[1])
         \o (IF Len(strs) > 1 THEN <<",">> ELSE <<>>) \o JsonItems(Tail(strs))

JsonArray(strs) ==
    IF Len(strs) = 0 THEN <<"[", "]">>
    ELSE <<"[">> \o JsonItems(strs) \o <<"\n", "  ", "]">>

JsonMember(key, value, last) ==
    <<"\n", "  ">> \o JsonString(<<key>>) \o <<":", " ">> \o value
    \o (IF last THEN <<>> ELSE <<",">>)

\* serde_json::to_string_pretty of a BuildManifest (derive(Serialize): the
\* fields in declaration order); Err when a path is not UTF-8
to_string_pretty(m) ==
    IF ~IsUtf8(m.artifact)
       \/ (\E i \in 1..Len(m.headers) : ~IsUtf8(m.headers[i]))
       \/ (\E i \in 1..Len(m.link_search) : ~IsUtf8(m.link_search[i]))
    THEN Err(<<>>)
    ELSE Ok(<<"{">>
            \o JsonMember("crate_name", JsonString(m.crate_name), FALSE)
            \o JsonMember("kind", JsonString(m.kind), FALSE)
            \o JsonMember("artifact", JsonString(m.artifact), FALSE)
            \o JsonMember("headers", JsonArray(m.headers), FALSE)
            \o JsonMember("rustc_target", JsonString(m.rustc_target), FALSE)
            \o JsonMember("link_libs", JsonArray(m.link_libs), FALSE)
            \o JsonMember("link_search", JsonArray(m.link_search), TRUE)
            \o <<"\n", "}">>)

ParseFail == [ok |-> FALSE, val |-> <<>>, next |-> 0]

ParseOk(v, n) == [ok |-> TRUE, val |-> v, next |-> n]

JsonWhitespace == {"\n", " ", "  "}

\* The first position at or after i that holds no whitespace
RECURSIVE SkipWs(_, _)
SkipWs(t, i) ==
    IF i <= Len(t) /\ t[i] \in JsonWhitespace THEN SkipWs(t, i + 1) ELSE i

\* The rest of a string literal from i (after the opening quote)
RECURSIVE ParseStringBody(_, _, _)
ParseStringBody(t, i, acc) ==
    IF i > Len(t) THEN ParseFail
    ELSE IF t[i] = "\"" THEN ParseOk(acc, i + 1)
    ELSE IF t[i] = "\\"
         THEN IF i + 1 <= Len(t) /\ t[i + 1] \in {"\"", "\\"}
              THEN ParseStringBody(t, i + 2, Append(acc, t[i + 1]))
              ELSE ParseFail
    ELSE ParseStringBody(t, i + 1, Append(acc, t[i]))

ParseString(t, i) ==
    IF i <= Len(t) /\ t[i] = "\"" THEN ParseStringBody(t, i + 1, <<>>)
    ELSE ParseFail

\* The elements of an array of strings from i (after "[" or after a ",")
RECURSIVE ParseElements(_, _, _)
ParseElements(t, i, acc) ==
    LET s == ParseString(t, SkipWs(t, i))
        j == SkipWs(t, s.next)
    IN  IF ~s.ok \/ j > Len(t) THEN ParseFail
        ELSE IF t[j] = "," THEN ParseElements(t, j + 1, Append(acc, s.val))
        ELSE IF t[j] = "]" THEN ParseOk(Append(acc, s.val), j + 1)
        ELSE ParseFail

\* A value: a string or an array of strings
ParseValue(t, i) ==
    IF i > Len(t) THEN ParseFail
    ELSE IF t[i] = "\""
         THEN LET s == ParseString(t, i)
              IN  IF s.ok THEN ParseOk([t |-> "str", v |-> s.val], s.next)
                  ELSE ParseFail
    ELSE IF t[i] = "["
         THEN LET j == SkipWs(t, i + 1)
              IN  IF j <= Len(t) /\ t[j] = "]"
                  THEN ParseOk([t |-> "arr", v |-> <<>>], j + 1)
                  ELSE LET a == ParseElements(t, i + 1, <<>>)
                       IN  IF a.ok THEN ParseOk([t |-> "arr", v |-> a.val], a.next)
                           ELSE ParseFail
    ELSE ParseFail

\* The members of an object from i (after "{" or after a ",")
RECURSIVE ParseMembers(_, _, _)
ParseMembers(t, i, acc) ==
    LET k == ParseString(t, SkipWs(t, i))
        c == SkipWs(t, k.next)
    IN  IF ~k.ok \/ c > Len(t) \/ t[c] # ":" THEN ParseFail
        ELSE LET v == ParseValue(t, SkipWs(t, c + 1))
                 j == SkipWs(t, v.next)
             IN  IF ~v.ok \/ j > Len(t) THEN ParseFail
                 ELSE IF t[j] = ","
                      THEN ParseMembers(t, j + 1, Append(acc, <<k.val, v.val>>))
                 ELSE IF t[j] = "}"
                      THEN ParseOk(Append(acc, <<k.val, v.val>>), j + 1)
                 ELSE ParseFail

ManifestFields ==
    [ crate_name |-> "str", kind |-> "str", artifact |-> "str",
      headers |-> "arr", rustc_target |-> "str", link_libs |-> "arr",
      link_search |-> "arr" ]

\* The value of field name among the members: derive(Deserialize) needs it
\* once, with the field's type
FieldOf(members, name) ==
    LET at == { i \in 1..Len(members) : members[i][1] = <<name>> }
    IN  IF Cardinality(at) = 1
        THEN LET v == members[CHOOSE i \in at : TRUE][2]
             IN  IF v.t = ManifestFields[name] THEN Some(v.v) ELSE None
        ELSE None

\* serde_json::from_str::<BuildManifest>
from_str(t) ==
    LET i == SkipWs(t, 1)
    IN  IF i > Len(t) \/ t[i] # "{" THEN Err(<<>>)
        ELSE LET ms == ParseMembers(t, i + 1, <<>>)
             IN  IF ~ms.ok \/ SkipWs(t, ms.next) <= Len(t) THEN Err(<<>>)
                 ELSE IF \E n \in DOMAIN ManifestFields : ~IsSome(FieldOf(ms.val, n))
                      THEN Err(<<>>)
                 ELSE Ok([n \in DOMAIN ManifestFields |-> Unwrap(FieldOf(ms.val, n))])

\* ManifestGenerator::read_manifest
read_manifest(f, manifest_path) ==
    IF ~(manifest_path \in DOMAIN f) \/ f[manifest_path].type # "file"
    THEN Err([what |-> "Failed to read manifest", path |-> manifest_path])
    ELSE IF ~from_str(f[manifest_path].data).ok
    THEN Err([what |-> "Failed to parse manifest JSON", path |-> manifest_path])
    ELSE Ok(from_str(f[manifest_path].data).val)

\* ManifestGenerator::write_manifest: every outcome [ret, fs] it can have on
\* file system f.  create_dir_all and fs::write can fail on an I/O fault at
\* any time; fs::write truncates the file before it writes, so a fault can
\* leave the file empty or holding a proper prefix of the text.
write_manifest(h, f, manifest, target_triple) ==
    LET manifest_path == get_manifest_path(h, manifest.crate_name, target_triple)
        parent == PathParent(h, manifest_path)
        mk == IF IsSome(parent) THEN create_dir_all(h, f, Unwrap(parent)) ELSE Ok(f)
        json == to_string_pretty(manifest)
    IN  {[ret |-> Err(<<"Failed to create manifest directory">>), fs |-> f]}
        \cup
        (IF ~mk.ok THEN {}
         ELSE IF ~json.ok
         THEN {[ret |-> Err(<<"Failed to serialize manifest to JSON">>), fs |-> mk.val]}
         ELSE {[ret |-> Err(<<"Failed to write manifest">>), fs |-> mk.val]}
              \cup
              (IF ~WriteFile(h, mk.val, manifest_path, json.val).ok THEN {}
               ELSE { [ ret |-> Ok(manifest_path),
                        fs |-> WriteFile(h, mk.val, manifest_path, json.val).val ] }
                    \cup
                    { [ ret |-> Err(<<"Failed to write manifest">>),
                        fs |-> WriteFile(h, mk.val, manifest_path,
                                         SubSeq(json.val, 1, k)).val ] :
                      k \in {0, Len(json.val) \div 2, Len(json.val) - 1} }))

(***************************************************************************)
(* Bounds and input sets                                                   *)
(***************************************************************************)
\* Longest triple, in '-'-separated parts, given to the pure functions
MaxTripleParts == 3

\* Most headers the header generator returns
MaxHeaders == 2

TripleAtoms ==
    { "x86_64", "aarch64", "i386", "linux", "gnu", "musl", "macos", "darwin",
      "windows", "msvc", "freebsd", "wasm32" }

RECURSIVE SeqsUpTo(_, _)
SeqsUpTo(S, n) ==
    IF n = 0 THEN {<<>>}
    ELSE SeqsUpTo(S, n - 1)
         \cup { Append(q, a) : q \in { r \in SeqsUpTo(S, n - 1) : Len(r) = n - 1 },
                               a \in S }

\* Longest crate name, in atoms, given to the file-name computations
MaxNameLen == 3

\* The pieces crate names are made of: '-' is the character the file names
\* replace
NameAtoms == {"my", "crate_x", "-"}

\* The crate names given to the file-name computations
NameStrings == SeqsUpTo(NameAtoms, MaxNameLen) \ {<<>>}

\* Most kind tags on one declared target
MaxKindTags == 2

\* Kind tags cargo metadata uses
KindTags == { <<"staticlib">>, <<"cdylib">>, <<"bin">>, <<"rlib">>, <<"example">> }

\* The kind-tag lists of a declared target: one or more tags
KindLists == SeqsUpTo(KindTags, MaxKindTags) \ {<<>>}

Wasm32 == Hy(<<"wasm32", "unknown", "unknown">>)

\* The strings given to translate and to the link-library computation: every
\* triple of up to MaxTripleParts parts over TripleAtoms, the producer
\* triples of the table, and the examples of the tests and the spec
TripleStrings ==
    { Hy(parts) : parts \in SeqsUpTo(TripleAtoms, MaxTripleParts) }
    \cup { MappingInserts[i][2] : i \in 1..Len(MappingInserts) }
    \cup { Wasm32, <<"unknown", "-", "target">> }

(***************************************************************************)
(* cli.rs: get_host_target and the inputs of build_command                 *)
(***************************************************************************)
\* What `rustc --version --verbose` names as host on a platform that
\* get_host_target does not know
RustcHost(h) == Hy(<<h.arch, "unknown", h.os, "gnu">>)

\* get_host_target: every result it can have on host h.  The fallback runs
\* rustc, which can fail or print no host line.
get_host_target(h) ==
    IF h.os = "linux" /\ h.arch = "x86_64"
    THEN {Ok(Hy(<<"x86_64", "unknown", "linux", "gnu">>))}
    ELSE IF h.os = "macos" /\ h.arch = "x86_64"
    THEN {Ok(Hy(<<"x86_64", "apple", "darwin">>))}
    ELSE IF h.os = "macos" /\ h.arch = "aarch64"
    THEN {Ok(Hy(<<"aarch64", "apple", "darwin">>))}
    ELSE IF h.os = "windows" /\ h.arch = "x86_64"
    THEN {Ok(Hy(<<"x86_64", "pc", "windows", "msvc">>))}
    ELSE {Ok(RustcHost(h)), Err(<<"Could not detect host target">>)}

\* The packages cargo metadata reports for the manifest path: name and
\* declared targets, each with its kind tags
Packages ==
    { [ name |-> <<"my", "-", "crate">>,
        targets |-> << [name |-> <<"my", "-", "crate">>, kind |-> <<<<"staticlib">>>>] >> ],
      [ name |-> <<"test_crate">>,
        targets |-> << [name |-> <<"test_crate">>,
                        kind |-> <<<<"cdylib">>, <<"staticlib">>>>],
                       [name |-> <<"tool">>, kind |-> <<<<"bin">>>>] >> ],
      [ name |-> <<"multi">>,
        targets |-> << [name |-> <<"multi">>, kind |-> <<<<"staticlib">>, <<"rlib">>>>],
                       [name |-> <<"multi", "-", "ffi">>, kind |-> <<<<"cdylib">>>>] >> ],
      [ name |-> <<"app">>,
        targets |-> << [name |-> <<"app">>, kind |-> <<<<"bin">>>>] >> ] }

\* --zig-target and --rust-target as given on the command line
TargetArgs ==
    { [zig_target |-> None, rust_target |-> None],
      [zig_target |-> Some(Hy(<<"aarch64", "linux", "musl">>)), rust_target |-> None],
      [zig_target |-> Some(Hy(<<"x86_64", "linux", "gnu">>)), rust_target |-> None],
      [zig_target |-> Some(Hy(<<"unknown", "target">>)), rust_target |-> None],
      [zig_target |-> Some(Hy(<<"x86_64", "macos">>)),
       rust_target |-> Some(Hy(<<"x86_64", "pc", "windows", "msvc">>))] }

\* --profile as given on the command line
ProfileArgs == {<<"debug">>, <<"release">>, <<"fast">>}

\* metadata.target_directory and the manifest's directory
TargetDirectory(h) ==
    IF h.os = "windows" THEN <<"C:", "\\", "proj", "\\", "target">>
    ELSE <<"/", "proj", "/", "target">>

ManifestDir(h) ==
    IF h.os = "windows" THEN <<"C:", "\\", "proj">> ELSE <<"/", "proj">>

Procs == {"p1", "p2"}

\* The locals of an invocation that has not started
IdleInvocation ==
    [ pc |-> "idle",
      zig_target |-> None, rust_target_override |-> None, profile |-> <<>>,
      pkg |-> None, generate_cbindgen_config |-> FALSE,
      build_profile |-> "Release", rust_target |-> <<>>,
      cargo_builder |-> CargoBuilder_new(<<>>),
      crate_info |-> None, discovery |-> None, cargo_dir |-> None,
      artifacts |-> <<>>, cached |-> 0, headers |-> <<>>,
      manifest |-> None, manifest_path |-> None,
      log |-> <<>>, error |-> <<>> ]

\* The invocation after a stage ended: the stage is logged, and a failure
\* (the ? operator, or return Err) ends the invocation
Passed(r, stage, pc) == [r EXCEPT !.pc = pc, !.log = Append(@, <<stage, TRUE>>)]

\* Mutant: the error is recorded but the invocation goes on at the same stage
Failed_and_retried(r, stage, error) ==
    [r EXCEPT !.log = Append(@, <<stage, FALSE>>), !.error = error]

Failed(r, stage, error) ==
    [r EXCEPT !.pc = "failed", !.log = Append(@, <<stage, FALSE>>), !.error = error]

\* An invocation of `ghostbind build` starts
Start(p) ==
    /\ inv[p].pc = "idle"
    /\ \E t \in TargetArgs, profile \in ProfileArgs, pkg \in Packages, g \in BOOLEAN :
          inv' = [inv EXCEPT ![p] =
                    [inv[p] EXCEPT !.pc = "profile",
                              !.zig_target = t.zig_target,
                              !.rust_target_override = t.rust_target,
                              !.profile = profile,
                              !.pkg = Some(pkg),
                              !.generate_cbindgen_config = g]]
    /\ UNCHANGED <<host, fs, api>>

\* build_command: parse the build profile
ParseProfile(p) ==
    /\ inv[p].pc = "profile"
    /\ inv' = [inv EXCEPT ![p] =
                 IF inv[p].profile = <<"debug">>
                 THEN Passed([inv[p] EXCEPT !.build_profile = "Debug"], "profile", "target")
                 ELSE IF inv[p].profile = <<"release">>
                 THEN Passed([inv[p] EXCEPT !.build_profile = "Release"], "profile", "target")
                 ELSE Failed(inv[p], "profile", <<"Invalid profile">>)]
    /\ UNCHANGED <<host, fs, api>>

\* build_command: determine the Rust target
ResolveTarget(p) ==
    /\ inv[p].pc = "target"
    /\ \E hr \in get_host_target(host) :
          inv' = [inv EXCEPT ![p] =
                    IF IsSome(inv[p].rust_target_override)
                    THEN Passed([inv[p] EXCEPT !.rust_target = Unwrap(inv[p].rust_target_override)],
                                "target", "builder")
                    ELSE IF IsSome(inv[p].zig_target)
                    THEN Passed([inv[p] EXCEPT !.rust_target =
                                    map_target_or_default(Unwrap(inv[p].zig_target))],
                                "target", "builder")
                    ELSE IF hr.ok
                    THEN Passed([inv[p] EXCEPT !.rust_target = hr.val], "target", "builder")
                    ELSE Failed(inv[p], "target", hr.val)]
    /\ UNCHANGED <<host, fs, api>>

\* build_command: create the Cargo builder; the target is set only when the
\* Rust target differs from get_host_target()
ConfigureBuilder(p) ==
    /\ inv[p].pc = "builder"
    /\ \E hr \in get_host_target(host) :
          inv' = [inv EXCEPT ![p] =
                    IF ~hr.ok THEN Failed(inv[p], "builder", hr.val)
                    ELSE LET b == CargoBuilder_profile(CargoBuilder_new(ManifestDir(host)),
                                                       inv[p].build_profile)
                             is_cross_compile == inv[p].rust_target # hr.val
                         IN  Passed([inv[p] EXCEPT !.cargo_builder =
                                        IF is_cross_compile
                                        THEN CargoBuilder_target(b, inv[p].rust_target)
                                        ELSE b],
                                    "builder", "metadata")]
    /\ UNCHANGED <<host, fs, api>>

\* build_command: get the crate metadata.  cargo metadata can fail, and the
\* package of the manifest path can be missing from what it reports.
GetMetadata(p) ==
    /\ inv[p].pc = "metadata"
    /\ \/ inv' = [inv EXCEPT ![p] =
                    Failed(inv[p], "metadata", <<"Failed to get crate metadata">>)]
       \/ inv' = [inv EXCEPT ![p] =
                    Passed([inv[p] EXCEPT !.crate_info =
                               Some(extract_crate_info(Unwrap(inv[p].pkg), ManifestDir(host),
                                                       TargetDirectory(host)))],
                           "metadata",
                           IF inv[p].generate_cbindgen_config THEN "config" ELSE "build")]
    /\ UNCHANGED <<host, fs, api>>

(***************************************************************************)
(* The external collaborators: cargo build and header generation           *)
(***************************************************************************)
\* The operating system of a producer triple, as cargo names its outputs
TargetOs(triple) ==
    IF Contains(triple, <<"windows">>) THEN "windows"
    ELSE IF Contains(triple, <<"darwin">>) THEN "macos"
    ELSE "linux"

\* The directory cargo build writes to: target-dir/[--target/]profile, the
\* --target segment present only when the flag was given
CargoOutDir(h, target_directory, b) ==
    PathJoin(h,
             IF IsSome(b.target) THEN PathJoin(h, target_directory, Unwrap(b.target))
             ELSE target_directory,
             profile_as_str(b.profile))

\* The library files cargo build --lib produces for the declared targets from
\* index i on: one per library kind tag, named for the platform built for
RECURSIVE CargoFiles(_, _, _)
CargoFiles(os, targets, i) ==
    IF i > Len(targets) THEN <<>>
    ELSE LET t == targets[i]
             tags == { t.kind[k] : k \in 1..Len(t.kind) }
         IN  (IF <<"staticlib">> \in tags
              THEN get_library_patterns([os |-> os], t.name, "StaticLib") ELSE <<>>)
             \o (IF <<"cdylib">> \in tags
                 THEN get_library_patterns([os |-> os], t.name, "DynamicLib") ELSE <<>>)
             \o CargoFiles(os, targets, i + 1)

\* Files names[i..] written into directory dir, each with its own content
RECURSIVE WriteAll(_, _, _, _, _, _)
WriteAll(h, f, dir, names, i, tag) ==
    IF i > Len(names) THEN f
    ELSE WriteAll(h,
                  WriteFile(h, f, PathJoin(h, dir, names[i]), tag \o names[i]).val,
                  dir, names, i + 1, tag)

\* What the compiler puts into a library file: it depends on the profile
\* and on the target built for
BuiltContent(b) ==
    <<"built", ":">> \o profile_as_str(b.profile) \o <<":">>
    \o (IF IsSome(b.target) THEN Unwrap(b.target) ELSE <<"host">>) \o <<":">>

\* CargoBuilder::build: every outcome [ret, fs, dir].  The command gets
\* --release for Release and --target only when the builder has a target;
\* cargo either fails or leaves the library files in its output directory.
\* With --lib it builds the library target of the package, so of several
\* declared targets with a library tag either all or only the first are
\* built.
cargo_build(h, f, b, pkg, target_directory) ==
    LET dir == CargoOutDir(h, target_directory, b)
        os == IF IsSome(b.target) THEN TargetOs(Unwrap(b.target)) ELSE h.os
        mk == create_dir_all(h, f, dir)
        libs == FilterLibraryTargets(pkg.targets)
    IN  {[ret |-> Err(<<"Cargo build failed">>), fs |-> f, dir |-> dir]}
        \cup (IF ~mk.ok THEN {}
              ELSE { [ ret |-> Ok(<<>>),
                       fs |-> WriteAll(h, mk.val, dir, CargoFiles(os, built, 1), 1,
                                       BuiltContent(b)),
                       dir |-> dir ]
                     : built \in {libs, SubSeq(libs, 1, IF Len(libs) = 0 THEN 0 ELSE 1)} })

\* HeaderGenerator::generate_headers: every outcome [ret, fs].  It fails, or
\* returns n >= 1 headers of the crate under cache/target-or-native/headers
\* whose files exist when it returns.
HeaderNames(crate_name) ==
    << crate_name \o <<".", "h">>, crate_name \o <<"_", "ffi", ".", "h">>,
       crate_name \o <<"_", "types", ".", "h">> >>

HeadersDir(h, target) ==
    PathJoin(h, PathJoin(h, CacheDir,
                         IF IsSome(target) THEN Unwrap(target) ELSE <<"native">>),
             <<"headers">>)

\* The first n headers of a crate: Vec<GeneratedHeader>
HeaderList(h, crate_name, target, n) ==
    [i \in 1..n |-> [ crate_name |-> crate_name,
                      header_path |-> PathJoin(h, HeadersDir(h, target),
                                               HeaderNames(crate_name)[i]) ]]

generate_headers(h, f, crate_info, target) ==
    LET dir == HeadersDir(h, target)
        mk == create_dir_all(h, f, dir)
    IN  {[ret |-> Err(<<"Failed to generate headers">>), fs |-> f]}
        \cup (IF ~mk.ok THEN {}
              ELSE { [ ret |-> Ok(HeaderList(h, crate_info.name, target, n)),
                       fs |-> WriteAll(h, mk.val, dir,
                                       SubSeq(HeaderNames(crate_info.name), 1, n), 1,
                                       <<"header", ":">>) ]
                     : n \in 1..MaxHeaders })

\* Mutant: the directory is created but the copy is missing
cache_artifact_no_copy(h, f, artifact) ==
    LET parent == PathParent(h, artifact.cached_path)
        mk == IF IsSome(parent) THEN create_dir_all(h, f, Unwrap(parent)) ELSE Ok(f)
    IN  {[ret |-> Err(<<"Failed to create cache directory">>), fs |-> f]}
        \cup (IF ~mk.ok THEN {} ELSE {[ret |-> Ok(<<>>), fs |-> mk.val]})

\* ArtifactDiscovery::cache_artifact: every outcome [ret, fs].
\* create_dir_all and fs::copy can fail on an I/O fault; a failed copy can
\* leave the destination truncated.
cache_artifact(h, f, artifact) ==
    LET parent == PathParent(h, artifact.cached_path)
        mk == IF IsSome(parent) THEN create_dir_all(h, f, Unwrap(parent)) ELSE Ok(f)
    IN  {[ret |-> Err(<<"Failed to create cache directory">>), fs |-> f]}
        \cup
        (IF ~mk.ok THEN {}
         ELSE {[ret |-> Err(<<"Failed to copy artifact">>), fs |-> mk.val]}
              \cup
              (IF ~CopyFile(h, mk.val, artifact.original_path, artifact.cached_path).ok
               THEN {}
               ELSE { [ ret |-> Ok(<<>>),
                        fs |-> CopyFile(h, mk.val, artifact.original_path,
                                        artifact.cached_path).val ],
                      [ ret |-> Err(<<"Failed to copy artifact">>),
                        fs |-> WriteFile(h, mk.val, artifact.cached_path, <<>>).val ] }))

(***************************************************************************)
(* cli.rs: build_command, from the build on                                *)
(***************************************************************************)
\* build_command: generate the default cbindgen config when asked to
GenerateConfig(p) ==
    /\ inv[p].pc = "config"
    /\ \/ inv' = [inv EXCEPT ![p] =
                    Failed(inv[p], "config", <<"Failed to write cbindgen config">>)]
       \/ inv' = [inv EXCEPT ![p] = Passed(inv[p], "config", "build")]
    /\ UNCHANGED <<host, fs, api>>

\* build_command: build the crate
Build(p) ==
    /\ inv[p].pc = "build"
    /\ \E o \in cargo_build(host, fs, inv[p].cargo_builder, Unwrap(inv[p].pkg),
                            Unwrap(inv[p].crate_info).target_directory) :
          /\ fs' = o.fs
          /\ inv' = [inv EXCEPT ![p] =
                       IF o.ret.ok
                       THEN Passed([inv[p] EXCEPT !.cargo_dir = Some(o.dir)], "build", "discover")
                       ELSE Failed(inv[p], "build", o.ret.val)]
    /\ UNCHANGED <<host, api>>

\* build_command: discover the artifacts; none found is an error
Discover(p) ==
    /\ inv[p].pc = "discover"
    /\ LET d == ArtifactDiscovery_new(Unwrap(inv[p].crate_info).target_directory,
                                      Some(inv[p].rust_target), inv[p].build_profile)
           r == discover_artifacts(host, d, fs, Unwrap(inv[p].crate_info))
       IN  inv' = [inv EXCEPT ![p] =
                     IF ~r.ok
                     THEN Failed([inv[p] EXCEPT !.discovery = Some(d)], "discover",
                                 [ context |-> "Failed to discover artifacts",
                                   cause |-> Some(r.val) ])
                     ELSE IF Len(r.val) = 0
                     THEN Failed([inv[p] EXCEPT !.discovery = Some(d)], "discover",
                                 [ context |-> "No library artifacts found",
                                   cause |-> None ])
                     ELSE Passed([inv[p] EXCEPT !.discovery = Some(d), !.artifacts = r.val],
                                 "discover", "cache")]
    /\ UNCHANGED <<host, fs, api>>

\* cache_artifacts: one turn of its loop, cache_artifact on the next artifact
CacheArtifact(p) ==
    /\ inv[p].pc = "cache"
    /\ inv[p].cached < Len(inv[p].artifacts)
    /\ \E o \in cache_artifact(host, fs, inv[p].artifacts[inv[p].cached + 1]) :
          /\ fs' = o.fs
          /\ inv' = [inv EXCEPT ![p] =
                       IF ~o.ret.ok THEN Failed(inv[p], "cache", o.ret.val)
                       ELSE IF inv[p].cached + 1 = Len(inv[p].artifacts)
                       THEN Passed([inv[p] EXCEPT !.cached = @ + 1], "cache", "headers")
                       ELSE [inv[p] EXCEPT !.cached = @ + 1]]
    /\ UNCHANGED <<host, api>>

\* build_command: generate the headers
GenerateHeaders(p) ==
    /\ inv[p].pc = "headers"
    /\ \E o \in generate_headers(host, fs, Unwrap(inv[p].crate_info),
                                 Some(inv[p].rust_target)) :
          /\ fs' = o.fs
          /\ inv' = [inv EXCEPT ![p] =
                       IF o.ret.ok
                       THEN Passed([inv[p] EXCEPT !.headers = o.ret.val], "headers", "manifest")
                       ELSE Failed(inv[p], "headers", o.ret.val)]
    /\ UNCHANGED <<host, api>>

\* build_command: generate the manifest of the first artifact and write it
WriteManifest(p) ==
    /\ inv[p].pc = "manifest"
    /\ LET m == generate_manifest(Unwrap(inv[p].crate_info).name, inv[p].artifacts[1],
                                  inv[p].headers, inv[p].rust_target)
       IN  \E o \in write_manifest(host, fs, m.val, Some(inv[p].rust_target)) :
              /\ fs' = o.fs
              /\ inv' = [inv EXCEPT ![p] =
                           IF o.ret.ok
                           THEN Passed([inv[p] EXCEPT !.manifest = Some(m.val),
                                                 !.manifest_path = Some(o.ret.val)],
                                       "write", "done")
                           ELSE Failed([inv[p] EXCEPT !.manifest = Some(m.val)],
                                       "write", o.ret.val)]
    /\ UNCHANGED <<host, api>>

(***************************************************************************)
(* The library used directly (lib.rs exports the modules): a client calls  *)
(* the pure functions, or generates a manifest and writes, reads and       *)
(* validates it while files come and go.                                   *)
(***************************************************************************)
ApiIdle ==
    [ call |-> "none", arg |-> <<>>, ret |-> <<>>, m |-> None, t |-> None,
      prev_valid |-> FALSE, valid |-> FALSE ]

\* A Rust target with characters JSON must escape
QuotedTarget == <<"x86_64", "-", "\"", "pc", "\"", "-", "\\", "windows">>

\* The rustc_target values given to generate_manifest
GenTargets ==
    { Hy(<<"x86_64", "unknown", "linux", "gnu">>), Wasm32, QuotedTarget }

CrateNames == {<<"my", "-", "crate">>, <<"test_crate">>}

\* A link-search directory a client adds to a manifest
LinkSearchDir(h) == PathJoin(h, TargetDirectory(h), <<"deps">>)

\* Every path a manifest refers to
ReferencedPaths(m) ==
    {m.artifact} \cup { m.headers[i] : i \in 1..Len(m.headers) }
    \cup { m.link_search[i] : i \in 1..Len(m.link_search) }

\* TargetMapping::map_target and map_target_or_default on one input
ApiTranslate ==
    /\ api.call = "none"
    /\ \E z \in TripleStrings :
          api' = [api EXCEPT !.call = "translate", !.arg = z,
                             !.ret = [ mapped |-> map_target(z),
                                       out |-> map_target_or_default(z) ]]
    /\ UNCHANGED <<host, fs, inv>>

\* ManifestGenerator::get_system_link_libs on one input
ApiLinkLibs ==
    /\ api.call = "none"
    /\ \E t \in TripleStrings :
          api' = [api EXCEPT !.call = "link_libs", !.arg = t,
                             !.ret = get_system_link_libs(t)]
    /\ UNCHANGED <<host, fs, inv>>

\* ManifestGenerator::generate_manifest for an artifact as find_artifact
\* describes it and n headers
ApiGenerate ==
    /\ api.call = "none"
    /\ \E crate_name \in CrateNames, kind \in {"StaticLib", "DynamicLib"},
          rustc_target \in GenTargets, named \in BOOLEAN,
          profile \in {"Release"}, n \in 0..MaxHeaders :
          LET t == IF named THEN Some(rustc_target) ELSE None
              d == ArtifactDiscovery_new(TargetDirectory(host), t, profile)
              artifact ==
                  [ name |-> crate_name, kind |-> kind,
                    original_path |->
                        PathJoin(host, get_build_directory(host, d),
                                 get_library_patterns(host, crate_name, kind)[1]),
                    cached_path |-> get_cache_path(host, d, crate_name, kind) ]
              headers == HeaderList(host, crate_name, t, n)
              r == generate_manifest(crate_name, artifact, headers, rustc_target)
          IN  api' = [api EXCEPT !.call = "generate",
                                 !.arg = [ crate_name |-> crate_name,
                                           artifact |-> artifact,
                                           headers |-> headers,
                                           rustc_target |-> rustc_target ],
                                 !.ret = r, !.m = Some(r.val), !.t = t]
    /\ UNCHANGED <<host, fs, inv>>

\* The client fills in the public link_search field, which generate_manifest
\* leaves empty ("will be populated later if needed")
ApiAddLinkSearch ==
    /\ api.call = "generate"
    /\ api' = [api EXCEPT !.call = "link_search",
                          !.m = Some([Unwrap(api.m) EXCEPT
                                         !.link_search = <<LinkSearchDir(host)>>])]
    /\ UNCHANGED <<host, fs, inv>>

\* Files f[i..] created on the file system, with their parent directories
RECURSIVE CreateFiles(_, _, _, _)
CreateFiles(h, f, paths, i) ==
    IF i > Len(paths) THEN f
    ELSE CreateFiles(h,
             WriteFile(h, create_dir_all(h, f, Unwrap(PathParent(h, paths[i]))).val,
                       paths[i], <<"content">>).val,
             paths, i + 1)

\* The paths of a manifest in field order, as a sequence
ReferencedSeq(m) == <<m.artifact>> \o m.headers \o m.link_search

\* The disk as the client finds it: any of the files the manifest refers to
\* exist
ApiCreateFiles ==
    /\ api.call \in {"generate", "link_search"}
    /\ \E keep \in SUBSET (1..Len(ReferencedSeq(Unwrap(api.m)))) :
          LET all == ReferencedSeq(Unwrap(api.m))
              RECURSIVE Pick(_)
              Pick(i) == IF i > Len(all) THEN <<>>
                         ELSE (IF i \in keep THEN <<all[i]>> ELSE <<>>) \o Pick(i + 1)
          IN  fs' = CreateFiles(host, fs, Pick(1), 1)
    /\ api' = [api EXCEPT !.call = "files"]
    /\ UNCHANGED <<host, inv>>

\* A file of a manifest that validated is deleted
ApiDeleteFile ==
    /\ api.call = "validate"
    /\ api.valid
    /\ \E q \in ReferencedPaths(Unwrap(api.m)) :
          /\ q \in DOMAIN fs
          /\ fs[q].type = "file"
          /\ fs' = [a \in (DOMAIN fs) \ {q} |-> fs[a]]
    /\ api' = [api EXCEPT !.call = "delete"]
    /\ UNCHANGED <<host, inv>>

\* ManifestGenerator::validate_manifest
ApiValidate ==
    /\ api.call \in {"files", "delete"}
    /\ LET r == validate_manifest(fs, Unwrap(api.m))
       IN  api' = [api EXCEPT !.call = "validate", !.ret = r,
                              !.prev_valid = api.valid,
                              !.valid = api.valid \/ r.ok]
    /\ UNCHANGED <<host, fs, inv>>

\* ManifestGenerator::write_manifest
ApiWrite ==
    /\ api.call \in {"generate", "link_search"}
    /\ \E o \in write_manifest(host, fs, Unwrap(api.m), api.t) :
          /\ fs' = o.fs
          /\ api' = [api EXCEPT !.call = "write", !.ret = o.ret]
    /\ UNCHANGED <<host, inv>>

\* ManifestGenerator::read_manifest on the path write_manifest just returned
ApiRead ==
    /\ api.call = "write"
    /\ api.ret.ok
    /\ api' = [api EXCEPT !.call = "read", !.arg = api.ret.val,
                          !.ret = read_manifest(fs, api.ret.val)]
    /\ UNCHANGED <<host, fs, inv>>

\* The file names and paths computed from a crate name: the candidates of
\* get_library_patterns, get_cache_path and get_manifest_path
ApiPaths ==
    /\ api.call = "none"
    /\ \E crate_name \in NameStrings, kind \in {"StaticLib", "DynamicLib"},
          t \in {None, Some(Hy(<<"aarch64", "unknown", "linux", "musl">>))},
          profile \in BuildProfiles :
          LET d == ArtifactDiscovery_new(TargetDirectory(host), t, profile)
          IN  api' = [api EXCEPT
                        !.call = "paths",
                        !.arg = [crate_name |-> crate_name, kind |-> kind,
                                 target |-> t, profile |-> profile],
                        !.ret = [ patterns |-> get_library_patterns(host, crate_name, kind),
                                  cache_path |-> get_cache_path(host, d, crate_name, kind),
                                  manifest_path |-> get_manifest_path(host, crate_name, t) ]]
    /\ UNCHANGED <<host, fs, inv>>

\* CargoBuilder::extract_crate_info on the metadata of a package with two
\* declared targets, the first with any list of kind tags
ApiExtract ==
    /\ api.call = "none"
    /\ \E kinds \in KindLists, second \in { <<<<"bin">>>>, <<<<"cdylib">>>> } :
          LET pkg == [ name |-> <<"test_crate">>,
                       targets |-> << [name |-> <<"test_crate">>, kind |-> kinds],
                                      [name |-> <<"extra">>, kind |-> second] >> ]
          IN  api' = [api EXCEPT
                        !.call = "extract", !.arg = pkg,
                        !.ret = Ok(extract_crate_info(pkg, ManifestDir(host),
                                                      TargetDirectory(host)))]
    /\ UNCHANGED <<host, fs, inv>>

\* ArtifactDiscovery::find_artifact in a build-output directory that holds
\* any of the candidate files
ApiFind ==
    /\ api.call = "none"
    /\ \E crate_name \in CrateNames, kind \in {"StaticLib", "DynamicLib"},
          t \in {None, Some(Hy(<<"aarch64", "unknown", "linux", "musl">>))},
          profile \in BuildProfiles :
          LET d == ArtifactDiscovery_new(TargetDirectory(host), t, profile)
              dir == get_build_directory(host, d)
              pats == get_library_patterns(host, crate_name, kind)
          IN  \E present \in SUBSET (1..Len(pats)) :
                 LET RECURSIVE Paths(_)
                     Paths(i) == IF i > Len(pats) THEN <<>>
                                 ELSE (IF i \in present
                                       THEN <<PathJoin(host, dir, pats[i])>>
                                       ELSE <<>>) \o Paths(i + 1)
                     made == create_dir_all(host, CreateFiles(host, fs, Paths(1), 1),
                                            dir).val
                 IN  /\ fs' = made
                     /\ api' = [api EXCEPT
                                  !.call = "find",
                                  !.arg = [crate_name |-> crate_name, kind |-> kind,
                                           discovery |-> d, present |-> present],
                                  !.ret = find_artifact(host, d, made, crate_name, kind)]
    /\ UNCHANGED <<host, inv>>

Init ==
    /\ host \in Hosts
    /\ fs = <<>>
    /\ inv = [p \in Procs |-> IdleInvocation]
    /\ api = ApiIdle

Step(p) ==
    \/ Start(p)
    \/ ParseProfile(p)
    \/ ResolveTarget(p)
    \/ ConfigureBuilder(p)
    \/ GetMetadata(p)
    \/ GenerateConfig(p)
    \/ Build(p)
    \/ Discover(p)
    \/ CacheArtifact(p)
    \/ GenerateHeaders(p)
    \/ WriteManifest(p)

Next == Step("p1")

\* One invocation of `ghostbind build`
Spec == Init /\ [][Next]_vars

NextApi ==
    \/ ApiTranslate
    \/ ApiLinkLibs
    \/ ApiGenerate
    \/ ApiAddLinkSearch
    \/ ApiCreateFiles
    \/ ApiDeleteFile
    \/ ApiValidate
    \/ ApiWrite
    \/ ApiRead
    \/ ApiPaths
    \/ ApiExtract
    \/ ApiFind

\* The command lines of two invocations started side by side: the same
\* crate and profile, for targets that may or may not differ
ConcurrentTargetArgs ==
    { [zig_target |-> Some(Hy(<<"aarch64", "linux", "musl">>)), rust_target |-> None],
      [zig_target |-> Some(Hy(<<"x86_64", "linux", "gnu">>)), rust_target |-> None],
      [zig_target |-> None, rust_target |-> None] }

ConcurrentPackage ==
    CHOOSE pkg \in Packages : pkg.name = <<"my", "-", "crate">>

StartConcurrent(p) ==
    /\ inv[p].pc = "idle"
    /\ \E t \in ConcurrentTargetArgs :
          inv' = [inv EXCEPT ![p] =
                    [inv[p] EXCEPT !.pc = "profile",
                              !.zig_target = t.zig_target,
                              !.rust_target_override = t.rust_target,
                              !.profile = <<"release">>,
                              !.pkg = Some(ConcurrentPackage)]]
    /\ UNCHANGED <<host, fs, api>>

StepConcurrent(p) ==
    \/ StartConcurrent(p)
    \/ ParseProfile(p)
    \/ ResolveTarget(p)
    \/ ConfigureBuilder(p)
    \/ GetMetadata(p)
    \/ Build(p)
    \/ Discover(p)
    \/ CacheArtifact(p)
    \/ GenerateHeaders(p)
    \/ WriteManifest(p)

NextConcurrent == \E p \in Procs : StepConcurrent(p)

\* Two invocations of `ghostbind build` in two processes, their steps
\* interleaved in every way
SpecConcurrent == Init /\ [][NextConcurrent]_vars

\* The command lines of builds run one after the other in one directory
SuccessiveTargetArgs ==
    { [zig_target |-> Some(Hy(<<"aarch64", "linux", "musl">>)), rust_target |-> None],
      [zig_target |-> Some(Hy(<<"x86_64", "linux", "gnu">>)), rust_target |-> None] }

SuccessivePackages ==
    { pkg \in Packages : pkg.name \in {<<"my", "-", "crate">>, <<"multi">>} }

\* The first build starts
StartFirst ==
    /\ inv["p1"].pc = "idle"
    /\ \E t \in SuccessiveTargetArgs, profile \in {<<"debug">>, <<"release">>},
          pkg \in SuccessivePackages :
          inv' = [inv EXCEPT !["p1"] =
                    [inv["p1"] EXCEPT !.pc = "profile",
                                 !.zig_target = t.zig_target,
                                 !.rust_target_override = t.rust_target,
                                 !.profile = profile,
                                 !.pkg = Some(pkg)]]
    /\ UNCHANGED <<host, fs, api>>

\* Once the first build has ended, the same crate is built again for the
\* same target, with the same or the other profile
StartSecond ==
    /\ inv["p1"].pc \in {"done", "failed"}
    /\ inv["p2"].pc = "idle"
    /\ \E profile \in {<<"debug">>, <<"release">>} :
          inv' = [inv EXCEPT !["p2"] =
                    [inv["p2"] EXCEPT !.pc = "profile",
                                 !.zig_target = inv["p1"].zig_target,
                                 !.rust_target_override = inv["p1"].rust_target_override,
                                 !.profile = profile,
                                 !.pkg = inv["p1"].pkg]]
    /\ UNCHANGED <<host, fs, api>>

StepSuccessive(p) ==
    \/ ParseProfile(p)
    \/ ResolveTarget(p)
    \/ ConfigureBuilder(p)
    \/ GetMetadata(p)
    \/ Build(p)
    \/ Discover(p)
    \/ CacheArtifact(p)
    \/ GenerateHeaders(p)
    \/ WriteManifest(p)

NextSuccessive ==
    \/ StartFirst
    \/ StartSecond
    \/ \E p \in Procs : StepSuccessive(p)

\* Two invocations of `ghostbind build`, the second after the first ended
SpecSuccessive == Init /\ [][NextSuccessive]_vars

\* The library's functions called by a client
SpecApi == Init /\ [][NextApi]_vars

(***************************************************************************)
(* Helpers of the properties                                               *)
(***************************************************************************)
Range(q) == { q[i] : i \in 1..Len(q) }

\* The stages an invocation has passed or failed, in order
Stages(r) == [i \in 1..Len(r.log) |-> r.log[i][1]]

PassedStage(r, stage) == \E i \in 1..Len(r.log) : r.log[i] = <<stage, TRUE>>

\* A host-targeted build: the builder is configured and has no target
HostBuild(r) == PassedStage(r, "builder") /\ ~IsSome(r.cargo_builder.target)

\* dir/a/b/c written out with the host's separator
Under(h, dir, segments) ==
    dir \o <<MainSep(h)>> \o StrJoin(segments, <<MainSep(h)>>)

\* The files on disk named as manifests are
ManifestFiles(f) ==
    { q \in DOMAIN f :
         /\ Len(q) >= 4
         /\ SubSeq(q, Len(q) - 3, Len(q)) = <<"-", "manifest", ".", "json">> }

(***************************************************************************)
(* C1.  For a host-targeted build (cargo is invoked without                *)
(* --target) discovery searches {build-root}/{profile}, the directory      *)
(* cargo wrote to.  The code gives ArtifactDiscovery Some(rust_target) in  *)
(* every case, so it searches {build-root}/{triple}/{profile}.             *)
(***************************************************************************)
C1_HostBuildSearchesCargoDir ==
    \A p \in Procs :
        (HostBuild(inv[p]) /\ IsSome(inv[p].discovery) /\ IsSome(inv[p].cargo_dir))
        => /\ get_build_directory(host, Unwrap(inv[p].discovery))
                = Unwrap(inv[p].cargo_dir)
           /\ get_build_directory(host, Unwrap(inv[p].discovery))
                = Under(host, TargetDirectory(host),
                        <<profile_as_str(inv[p].build_profile)>>)

(***************************************************************************)
(* C2.  For a host-targeted build the first segment under the              *)
(* cache root is "native", for the cached artifact and for the manifest.   *)
(* The code uses the triple there for every build.                         *)
(***************************************************************************)
C2_HostBuildCachesUnderNative ==
    \A p \in Procs :
        (HostBuild(inv[p]) /\ IsSome(inv[p].discovery))
        => /\ \A kind \in {"StaticLib", "DynamicLib"} :
                 get_cache_path(host, Unwrap(inv[p].discovery),
                                Unwrap(inv[p].crate_info).name, kind)
                   = Under(host, CacheDir,
                           << <<"native">>, profile_as_str(inv[p].build_profile),
                              Unwrap(inv[p].crate_info).name \o <<".">>
                                 \o get_artifact_extension(host, kind) >>)
           /\ IsSome(inv[p].manifest_path)
                 => Unwrap(inv[p].manifest_path)
                      = Under(host, CacheDir,
                              << <<"native">>,
                                 Unwrap(inv[p].crate_info).name
                                    \o <<"-", "manifest", ".", "json">> >>)

(***************************************************************************)
(* C3.  For a cross-compiled build (the producer triple T is not the host  *)
(* triple) cargo is invoked with --target T, discovery searches            *)
(* {build-root}/T/{profile}, which is where cargo wrote, and every cached  *)
(* artifact path is {cache-root}/T/{profile}/{name}.{ext}, T not "native". *)
(***************************************************************************)
C3_CrossCompileUsesTriple ==
    \A p \in Procs :
        LET r == inv[p]
            T == r.rust_target
            out == Under(host, TargetDirectory(host),
                         <<T, profile_as_str(r.build_profile)>>)
        IN  (PassedStage(r, "builder") /\ Ok(T) \notin get_host_target(host))
            => /\ r.cargo_builder.target = Some(T)
               /\ IsSome(r.cargo_dir) => Unwrap(r.cargo_dir) = out
               /\ IsSome(r.discovery)
                     => get_build_directory(host, Unwrap(r.discovery)) = out
               /\ \A i \in 1..Len(r.artifacts) :
                     /\ T # <<"native">>
                     /\ r.artifacts[i].cached_path
                          = Under(host, CacheDir,
                                  << T, profile_as_str(r.build_profile),
                                     r.artifacts[i].name \o <<".">>
                                        \o get_artifact_extension(host,
                                                                  r.artifacts[i].kind) >>)

C3_Witness ==
    \E p \in Procs :
        /\ inv[p].pc = "done"
        /\ inv[p].cargo_builder.target = Some(Hy(<<"aarch64", "unknown", "linux", "musl">>))
        /\ Len(inv[p].artifacts) > 0

StageOrder ==
    << "profile", "target", "builder", "metadata", "config", "build",
       "discover", "cache", "headers", "write" >>

StageIndex(stage) == CHOOSE i \in 1..Len(StageOrder) : StageOrder[i] = stage

C5_WriteIsLastStep ==
    /\ ManifestFiles(fs) # {} => \E p \in Procs : "write" \in Range(Stages(inv[p]))
    /\ \A p \in Procs :
        LET r == inv[p]
        IN  /\ \A i \in 1..Len(r.log) : r.log[i][1] \in Range(StageOrder)
            /\ \A i, j \in 1..Len(r.log) :
                  i < j => /\ StageIndex(r.log[i][1]) < StageIndex(r.log[j][1])
                           /\ r.log[i][2] = TRUE
            /\ (r.pc = "failed") = (Len(r.log) > 0 /\ r.log[Len(r.log)][2] = FALSE)
            /\ "write" \in Range(Stages(r))
                  => /\ \A st \in { "profile", "target", "builder", "metadata",
                                    "build", "discover", "cache", "headers" } :
                           PassedStage(r, st)
                     /\ Len(r.artifacts) > 0
                     /\ r.cached = Len(r.artifacts)

C5_Witness ==
    \E p \in Procs :
        /\ inv[p].pc = "failed"
        /\ inv[p].log[Len(inv[p].log)] = <<"headers", FALSE>>
        /\ ManifestFiles(fs) = {}

(***************************************************************************)
(* C6.  translate: for every key of the mapping table                      *)
(* map_target_or_default returns the table's producer triple, for every    *)
(* other string it returns the input; map_target is None exactly for the   *)
(* strings that are no key.                                                *)
(***************************************************************************)
C6_TranslateTotal ==
    api.call = "translate"
    => /\ \A i \in 1..Len(MappingInserts) :
             api.arg = MappingInserts[i][1]
             => /\ api.ret.out = MappingInserts[i][2]
                /\ api.ret.mapped = Some(MappingInserts[i][2])
       /\ (\A i \in 1..Len(MappingInserts) : api.arg # MappingInserts[i][1])
             => /\ api.ret.out = api.arg
                /\ api.ret.mapped = None
       /\ api.arg = Hy(<<"x86_64", "linux", "gnu">>)
             => api.ret.out = Hy(<<"x86_64", "unknown", "linux", "gnu">>)
       /\ api.arg = Hy(<<"aarch64", "macos">>)
             => api.ret.out = Hy(<<"aarch64", "apple", "darwin">>)
       /\ api.arg = Hy(<<"x86_64", "windows", "msvc">>)
             => api.ret.out = Hy(<<"x86_64", "pc", "windows", "msvc">>)

C6_Witness ==
    /\ api.call = "translate"
    /\ api.arg = Hy(<<"i386", "linux", "gnu">>)
    /\ api.ret.out = Hy(<<"i686", "unknown", "linux", "gnu">>)

(***************************************************************************)
(* C7 as stated: for every triple containing "linux",                      *)
(* "darwin" or "windows" the link-library list is non-empty and contains   *)
(* pthread.                                                                *)
(***************************************************************************)
C7_Original ==
    ( /\ api.call = "link_libs"
      /\ \/ Contains(api.arg, <<"linux">>)
         \/ Contains(api.arg, <<"darwin">>)
         \/ Contains(api.arg, <<"windows">>) )
    => /\ Len(api.ret) > 0
       /\ <<"pthread">> \in Range(api.ret)

(***************************************************************************)
(* C7 as amended.  For every triple containing "linux", "darwin" or        *)
(* "windows" the list is non-empty; it contains pthread when the triple    *)
(* contains "linux", "darwin" or "macos"; for a triple with "windows" and  *)
(* none of those it holds the Windows system libraries (kernel32, ...) and *)
(* no pthread.                                                             *)
(***************************************************************************)
C7_LinkLibsNonEmpty ==
    ( /\ api.call = "link_libs"
      /\ \/ Contains(api.arg, <<"linux">>)
         \/ Contains(api.arg, <<"darwin">>)
         \/ Contains(api.arg, <<"windows">>) )
    => /\ Len(api.ret) > 0
       /\ IF \/ Contains(api.arg, <<"linux">>)
             \/ Contains(api.arg, <<"darwin">>)
             \/ Contains(api.arg, <<"macos">>)
          THEN <<"pthread">> \in Range(api.ret)
          ELSE /\ <<"kernel32">> \in Range(api.ret)
               /\ <<"pthread">> \notin Range(api.ret)

C7_Witness ==
    /\ api.call = "link_libs"
    /\ api.arg = Hy(<<"x86_64", "pc", "windows", "msvc">>)
    /\ <<"kernel32">> \in Range(api.ret)
    /\ <<"pthread">> \notin Range(api.ret)

(***************************************************************************)
(* C8.  For every triple containing none of "linux", "darwin", "macos",    *)
(* "windows", "freebsd" the link-library list is empty, and                *)
(* generate_manifest still returns Ok, with an empty link_libs.            *)
(***************************************************************************)
Unrecognized(triple) ==
    \A pat \in {"linux", "darwin", "macos", "windows", "freebsd"} :
        ~Contains(triple, <<pat>>)

C8_UnrecognizedTripleEmptyList ==
    /\ (api.call = "link_libs" /\ Unrecognized(api.arg)) => api.ret = <<>>
    /\ (api.call = "generate" /\ Unrecognized(api.arg.rustc_target))
          => /\ api.ret.ok
             /\ api.ret.val.link_libs = <<>>
             /\ api.ret.val.rustc_target = api.arg.rustc_target

C8_Witness ==
    /\ api.call = "generate"
    /\ api.arg.rustc_target = Wasm32
    /\ api.ret.ok
    /\ api.ret.val.link_libs = <<>>

(***************************************************************************)
(* C9 as stated: validate_manifest succeeds if and only if                 *)
(* every path the manifest refers to exists on disk.                       *)
(***************************************************************************)
C9_Original ==
    api.call = "validate"
    => (api.ret.ok <=> \A q \in ReferencedPaths(Unwrap(api.m)) : Exists(fs, q))

(***************************************************************************)
(* C9 as amended.  validate_manifest succeeds if and only if the artifact  *)
(* path and every header path exist on disk at validation time (the        *)
(* link_search directories are not checked); so once a manifest validated, *)
(* a validation after its artifact or one of its headers was deleted       *)
(* fails.                                                                  *)
(***************************************************************************)
ArtifactAndHeadersExist(f, m) ==
    /\ Exists(f, m.artifact)
    /\ \A i \in 1..Len(m.headers) : Exists(f, m.headers[i])

C9_ValidateIffFilesExist ==
    api.call = "validate"
    => /\ api.ret.ok <=> ArtifactAndHeadersExist(fs, Unwrap(api.m))
       /\ (api.prev_valid /\ ~ArtifactAndHeadersExist(fs, Unwrap(api.m)))
             => ~api.ret.ok

C9_Witness ==
    /\ api.call = "validate"
    /\ api.prev_valid
    /\ ~api.ret.ok
    /\ Exists(fs, Unwrap(api.m).artifact)
    /\ Len(Unwrap(api.m).headers) = 2
    /\ Exists(fs, Unwrap(api.m).headers[1])
    /\ ~Exists(fs, Unwrap(api.m).headers[2])

(***************************************************************************)
(* C10.  generate_manifest, write_manifest, then read_manifest on the path *)
(* write_manifest returned gives back a manifest equal in all seven        *)
(* fields.                                                                 *)
(***************************************************************************)
C10_WriteReadRoundTrip ==
    api.call = "read"
    => /\ api.ret.ok
       /\ LET m == Unwrap(api.m)
              b == api.ret.val
          IN  /\ b.crate_name = m.crate_name
              /\ b.kind = m.kind
              /\ b.artifact = m.artifact
              /\ b.headers = m.headers
              /\ b.rustc_target = m.rustc_target
              /\ b.link_libs = m.link_libs
              /\ b.link_search = m.link_search

C10_Witness ==
    /\ api.call = "read"
    /\ api.ret.ok
    /\ api.ret.val.rustc_target = QuotedTarget
    /\ Len(api.ret.val.headers) = 2
    /\ Len(api.ret.val.link_search) = 1
    /\ api.ret.val = Unwrap(api.m)

(***************************************************************************)
(* C11.  If for some library target every candidate file name is absent    *)
(* from the build-output directory, discovery fails for the invocation,    *)
(* with an error that names the crate (the first such target), its kind    *)
(* ("staticlib"/"cdylib") and the directory searched; no artifact list is  *)
(* returned, not even of the targets found before, and nothing is cached.  *)
(***************************************************************************)
\* Path p lies under directory dir
StartsWith(p, dir) == Len(p) >= Len(dir) /\ SubSeq(p, 1, Len(dir)) = dir

\* Every candidate file of library target t is absent from directory dir
MissingFrom(h, f, dir, t) ==
    /\ is_library(t.kind)
    /\ LET pats == get_library_patterns(h, t.name, Unwrap(from_target_kind(t.kind)))
       IN  \A i \in 1..Len(pats) : ~Exists(f, PathJoin(h, dir, pats[i]))

C11_MissingArtifactFails ==
    \A p \in Procs :
        LET r == inv[p]
        IN  (Len(r.log) > 0 /\ r.log[Len(r.log)][1] = "discover")
            => LET d == Unwrap(r.discovery)
                   targets == Unwrap(r.crate_info).targets
                   dir == get_build_directory(host, d)
                   missing == { i \in 1..Len(targets) :
                                   MissingFrom(host, fs, dir, targets[i]) }
               IN  missing # {}
                   => LET first == CHOOSE i \in missing : \A j \in missing : i <= j
                      IN  /\ r.pc = "failed"
                          /\ r.log[Len(r.log)] = <<"discover", FALSE>>
                          /\ IsSome(r.error.cause)
                          /\ Unwrap(r.error.cause).crate = targets[first].name
                          /\ Unwrap(r.error.cause).kind
                               = kind_as_str(Unwrap(from_target_kind(targets[first].kind)))
                          /\ Unwrap(r.error.cause).kind \in {<<"staticlib">>, <<"cdylib">>}
                          /\ Unwrap(r.error.cause).dir = dir
                          /\ r.artifacts = <<>>
                          /\ r.cached = 0
                          /\ \A q \in DOMAIN fs : ~StartsWith(q, CacheDir)

C11_Witness ==
    \E p \in Procs :
        /\ inv[p].pc = "failed"
        /\ inv[p].log[Len(inv[p].log)] = <<"discover", FALSE>>
        /\ IsSome(inv[p].error.cause)
        /\ Unwrap(inv[p].error.cause).crate = <<"multi", "-", "ffi">>
        /\ Unwrap(inv[p].error.cause).kind = <<"cdylib">>
        /\ ~MissingFrom(host, fs, get_build_directory(host, Unwrap(inv[p].discovery)),
                        Unwrap(inv[p].crate_info).targets[1])

(***************************************************************************)
(* C12.  For a crate name with hyphens every candidate build-output file   *)
(* name, static and dynamic, has each hyphen replaced by an underscore and *)
(* the rest of the name unchanged, while the file name of the cached       *)
(* artifact and the file name of the manifest keep the name with its       *)
(* hyphens.                                                                *)
(***************************************************************************)
EndsWith(p, tail) ==
    Len(p) >= Len(tail) /\ SubSeq(p, Len(p) - Len(tail) + 1, Len(p)) = tail

\* File name `file` is prefix, then the crate name with '_' for every '-',
\* then suffix
NormalizedIn(file, prefix, crate_name, suffix) ==
    /\ Len(file) = Len(prefix) + Len(crate_name) + Len(suffix)
    /\ StartsWith(file, prefix)
    /\ EndsWith(file, suffix)
    /\ \A i \in 1..Len(crate_name) :
          file[Len(prefix) + i] = (IF crate_name[i] = "-" THEN "_" ELSE crate_name[i])
    /\ "-" \notin Range(file)

C12_HyphensNormalized ==
    (api.call = "paths" /\ "-" \in Range(api.arg.crate_name))
    => LET name == api.arg.crate_name
           pats == api.ret.patterns
           ext == get_artifact_extension(host, api.arg.kind)
           sep == <<MainSep(host)>>
       IN  /\ Len(pats) >= 1
           /\ \A i \in 1..Len(pats) :
                 \E prefix \in {<<>>, <<"lib">>},
                    suffix \in { <<".", "a">>, <<".", "lib">>, <<".", "so">>,
                                 <<".", "dylib">>, <<".", "dll">>,
                                 <<".", "dll", ".", "lib">> } :
                    NormalizedIn(pats[i], prefix, name, suffix)
           /\ EndsWith(api.ret.cache_path, sep \o name \o <<".">> \o ext)
           /\ EndsWith(api.ret.manifest_path,
                       sep \o name \o <<"-", "manifest", ".", "json">>)

C12_Witness ==
    /\ api.call = "paths"
    /\ api.arg.crate_name = <<"my", "-", "crate_x">>
    /\ api.arg.kind = "StaticLib"
    /\ api.ret.patterns = << <<"lib", "my", "_", "crate_x", ".", "a">> >>
    /\ EndsWith(api.ret.cache_path, <<"/", "my", "-", "crate_x", ".", "a">>)
    /\ EndsWith(api.ret.manifest_path,
                <<"/", "my", "-", "crate_x", "-", "manifest", ".", "json">>)

(***************************************************************************)
(* C13.  Two invocations running side by side whose target triples differ  *)
(* never write the same file under the cache root: their cached-artifact   *)
(* paths and manifest paths are pairwise distinct, and in every            *)
(* interleaving each cached artifact holds the content of its own build    *)
(* output and each written manifest file holds its own manifest, as if the *)
(* invocation had run alone.                                               *)
(***************************************************************************)
\* The files invocation r writes under the cache root
CacheFilesOf(h, r) ==
    { r.artifacts[i].cached_path : i \in 1..Len(r.artifacts) }
    \cup (IF IsSome(r.crate_info)
          THEN {get_manifest_path(h, Unwrap(r.crate_info).name, Some(r.rust_target))}
          ELSE {})

C13_DistinctTriplesNoInterference ==
    \A p, q \in Procs :
        ( /\ p # q
          /\ PassedStage(inv[p], "target") /\ PassedStage(inv[q], "target")
          /\ inv[p].rust_target # inv[q].rust_target )
        => LET r == inv[p]
           IN  /\ CacheFilesOf(host, r) \cap CacheFilesOf(host, inv[q]) = {}
               /\ \A i \in 1..r.cached :
                     /\ r.artifacts[i].cached_path \in DOMAIN fs
                     /\ fs[r.artifacts[i].cached_path]
                          = fs[r.artifacts[i].original_path]
                     /\ StartsWith(fs[r.artifacts[i].cached_path].data,
                                   BuiltContent(r.cargo_builder))
               /\ r.pc = "done"
                     => /\ Unwrap(r.manifest_path)
                             = get_manifest_path(host, Unwrap(r.crate_info).name,
                                                 Some(r.rust_target))
                        /\ read_manifest(fs, Unwrap(r.manifest_path))
                             = Ok(Unwrap(r.manifest))

C13_Witness ==
    /\ inv["p1"].pc = "done" /\ inv["p2"].pc = "done"
    /\ inv["p1"].rust_target # inv["p2"].rust_target
    /\ read_manifest(fs, Unwrap(inv["p1"].manifest_path)) = Ok(Unwrap(inv["p1"].manifest))
    /\ read_manifest(fs, Unwrap(inv["p2"].manifest_path)) = Ok(Unwrap(inv["p2"].manifest))

(***************************************************************************)
(* C14.  Every CrateTarget of the CrateInfo the metadata resolver returns  *)
(* has a library kind (StaticLib or CdyLib): for any kind-tag lists of the *)
(* declared targets, the targets kept are, in order, those whose tags      *)
(* include "staticlib" or "cdylib", the kind of each is its first          *)
(* recognized tag, and the others are dropped without an error.  The code  *)
(* keeps a target tagged <<"bin", "staticlib">> with kind Bin.             *)
(***************************************************************************)
C14_TargetsHaveLibraryKind ==
    api.call = "extract"
    => LET declared == api.arg.targets
           kept == { i \in 1..Len(declared) :
                        \E k \in 1..Len(declared[i].kind) :
                            declared[i].kind[k] \in {<<"staticlib">>, <<"cdylib">>} }
       IN  /\ api.ret.ok
           /\ Len(api.ret.val.targets) = Cardinality(kept)
           /\ \A j \in 1..Len(api.ret.val.targets) :
                 LET t == api.ret.val.targets[j]
                 IN  /\ \E i \in kept :
                           /\ Cardinality({ i2 \in kept : i2 <= i }) = j
                           /\ t.name = declared[i].name
                           /\ t.kind = from_cargo_kinds(declared[i].kind)
                     /\ t.kind.tag \in {"StaticLib", "CdyLib"}

(***************************************************************************)
(* C15.  The candidates are probed in list order and the first that exists *)
(* becomes original_path (none existing is an error); on a Windows host a  *)
(* DynamicLib search with only {name}.dll.lib present succeeds; and the    *)
(* cached path is {cache-root}/{triple or native}/{profile}/{name}.{ext}   *)
(* with ext chosen from the host platform and the kind alone (lib/a,       *)
(* dll/dylib/so), whichever candidate matched.                             *)
(***************************************************************************)
C15_FirstExistingCandidateWins ==
    api.call = "find"
    => LET d == api.arg.discovery
           name == api.arg.crate_name
           kind == api.arg.kind
           present == api.arg.present
           dir == get_build_directory(host, d)
           pats == get_library_patterns(host, name, kind)
           ext == IF kind = "StaticLib"
                  THEN (IF host.os = "windows" THEN <<"lib">> ELSE <<"a">>)
                  ELSE (IF host.os = "windows" THEN <<"dll">>
                        ELSE IF host.os = "macos" THEN <<"dylib">> ELSE <<"so">>)
       IN  /\ api.ret.ok <=> present # {}
           /\ present # {}
                 => /\ \E i \in present :
                          /\ \A j \in present : i <= j
                          /\ api.ret.val.original_path = PathJoin(host, dir, pats[i])
                    /\ api.ret.val.original_path \in DOMAIN fs
                    /\ api.ret.val.cached_path
                         = Under(host, CacheDir,
                                 << IF IsSome(d.target_triple)
                                    THEN Unwrap(d.target_triple) ELSE <<"native">>,
                                    profile_as_str(d.profile),
                                    name \o <<".">> \o ext >>)
           /\ (host.os = "windows" /\ kind = "DynamicLib")
                 => /\ Len(pats) = 2
                    /\ present = {2}
                          => /\ api.ret.ok
                             /\ EndsWith(api.ret.val.original_path,
                                         <<".", "dll", ".", "lib">>)
                             /\ EndsWith(api.ret.val.cached_path, <<".", "dll">>)

C15_Witness ==
    /\ api.call = "find"
    /\ host.os = "windows"
    /\ api.arg.kind = "DynamicLib"
    /\ api.arg.present = {2}
    /\ api.ret.ok
    /\ EndsWith(api.ret.val.original_path, <<"test_crate", ".", "dll", ".", "lib">>)
    /\ EndsWith(api.ret.val.cached_path, <<"test_crate", ".", "dll">>)

(***************************************************************************)
(* C16.  cache_artifact copies, it does not move: after it succeeded the   *)
(* build-output file is still there with the content cargo gave it, the    *)
(* destination holds that same content whether or not an earlier cached    *)
(* copy was there, and running it again on the result succeeds only with   *)
(* the state unchanged.  A directory or copy failure ends the invocation   *)
(* at once: the cache stage is not run again, and the artifacts after the  *)
(* failed one are not copied.                                              *)
(***************************************************************************)
\* The invocation that is running or was the last to run
Latest == IF inv["p2"].pc # "idle" THEN "p2" ELSE "p1"

C16_CopyKeepsOriginal ==
    LET r == inv[Latest]
    IN  /\ \A i \in 1..r.cached :
              LET a == r.artifacts[i]
              IN  /\ a.original_path \in DOMAIN fs
                  /\ fs[a.original_path].type = "file"
                  /\ StartsWith(fs[a.original_path].data, BuiltContent(r.cargo_builder))
                  /\ a.cached_path \in DOMAIN fs
                  /\ fs[a.cached_path] = fs[a.original_path]
                  /\ IsDir(fs, Unwrap(PathParent(host, a.cached_path)))
                  /\ \E o \in cache_artifact(host, fs, a) : o.ret.ok
                  /\ \A o \in cache_artifact(host, fs, a) : o.ret.ok => o.fs = fs
        /\ (Len(r.log) > 0 /\ r.log[Len(r.log)] = <<"cache", FALSE>>)
              => /\ r.pc = "failed"
                 /\ r.cached < Len(r.artifacts)
                 /\ Cardinality({ k \in 1..Len(r.log) : r.log[k][1] = "cache" }) = 1
                 /\ Latest = "p1"
                       => \A i \in (r.cached + 2)..Len(r.artifacts) :
                             r.artifacts[i].cached_path \notin DOMAIN fs

\* The second build copied both artifacts over what the first build, which
\* failed while copying its second one, had left in the cache
C16_Witness ==
    /\ inv["p1"].pc = "failed"
    /\ inv["p1"].log[Len(inv["p1"].log)] = <<"cache", FALSE>>
    /\ inv["p1"].cached = 1
    /\ inv["p2"].pc = "done"
    /\ inv["p2"].cached = 2
    /\ inv["p2"].build_profile = inv["p1"].build_profile
    /\ \A i \in 1..2 :
          fs[inv["p2"].artifacts[i].cached_path] = fs[inv["p2"].artifacts[i].original_path]

(***************************************************************************)
(* C17.  The link-library list is a fixed ordered list chosen by the first *)
(* substring found, in the order linux, darwin/macos, windows, freebsd:    *)
(* linux gives pthread, dl, m, c (gnu and musl alike); darwin/macos gives  *)
(* System, pthread, c; windows gives kernel32, user32, shell32, msvcrt,    *)
(* followed by vcruntime, ucrt exactly when the triple also contains       *)
(* "msvc"; freebsd gives pthread, c, m; and the link_libs of a generated   *)
(* manifest is this list for its rustc_target.                             *)
(***************************************************************************)
C17_LinkLibsExactLists ==
    LET Has(t, word) == Contains(t, <<word>>)
        Listed(t, libs) ==
            /\ Has(t, "linux")
                  => libs = << <<"pthread">>, <<"dl">>, <<"m">>, <<"c">> >>
            /\ (~Has(t, "linux") /\ (Has(t, "darwin") \/ Has(t, "macos")))
                  => libs = << <<"System">>, <<"pthread">>, <<"c">> >>
            /\ (~Has(t, "linux") /\ ~Has(t, "darwin") /\ ~Has(t, "macos")
                  /\ Has(t, "windows"))
                  => /\ SubSeq(libs, 1, 4)
                          = << <<"kernel32">>, <<"user32">>, <<"shell32">>, <<"msvcrt">> >>
                     /\ Has(t, "msvc")
                          => libs = << <<"kernel32">>, <<"user32">>, <<"shell32">>,
                                       <<"msvcrt">>, <<"vcruntime">>, <<"ucrt">> >>
                     /\ ~Has(t, "msvc") => Len(libs) = 4
            /\ (~Has(t, "linux") /\ ~Has(t, "darwin") /\ ~Has(t, "macos")
                  /\ ~Has(t, "windows") /\ Has(t, "freebsd"))
                  => libs = << <<"pthread">>, <<"c">>, <<"m">> >>
    IN  /\ api.call = "link_libs" => Listed(api.arg, api.ret)
        /\ api.call = "generate"
              => /\ api.ret.ok
                 /\ Listed(api.arg.rustc_target, api.ret.val.link_libs)
                 /\ api.ret.val.link_libs = get_system_link_libs(api.arg.rustc_target)

C17_Witness ==
    /\ api.call = "link_libs"
    /\ api.arg = Hy(<<"x86_64", "pc", "windows", "msvc">>)
    /\ api.ret = << <<"kernel32">>, <<"user32">>, <<"shell32">>, <<"msvcrt">>,
                    <<"vcruntime">>, <<"ucrt">> >>

(***************************************************************************)
(* C18.  The manifest path is made of the crate name and the triple only,  *)
(* the cached-artifact path also of the profile.  So after two successful  *)
(* builds of one crate for one triple there is a single manifest file, it  *)
(* holds the manifest of the build that completed last, whose artifact     *)
(* field names that build's cached artifact; and when the profiles differ  *)
(* the cached artifact of the earlier build is still there, under its own  *)
(* profile, with its own content.                                          *)
(***************************************************************************)
C18_ManifestPathIgnoresProfile ==
    /\ \A p \in Procs :
          IsSome(inv[p].manifest_path)
          => Unwrap(inv[p].manifest_path)
               = Under(host, CacheDir,
                       << inv[p].rust_target,
                          Unwrap(inv[p].crate_info).name
                             \o <<"-", "manifest", ".", "json">> >>)
    /\ (inv["p1"].pc = "done" /\ inv["p2"].pc = "done")
          => LET first == inv["p1"]
                 last == inv["p2"]
             IN  /\ first.rust_target = last.rust_target
                 /\ Unwrap(first.crate_info).name = Unwrap(last.crate_info).name
                 /\ first.manifest_path = last.manifest_path
                 /\ ManifestFiles(fs) = {Unwrap(last.manifest_path)}
                 /\ read_manifest(fs, Unwrap(last.manifest_path)) = Ok(Unwrap(last.manifest))
                 /\ Unwrap(last.manifest).artifact = last.artifacts[1].cached_path
                 /\ \A i \in 1..Len(last.artifacts) :
                       last.artifacts[i].cached_path
                         = Under(host, CacheDir,
                                 << last.rust_target, profile_as_str(last.build_profile),
                                    last.artifacts[i].name \o <<".">>
                                       \o get_artifact_extension(host, last.artifacts[i].kind) >>)
                 /\ first.build_profile # last.build_profile
                       => /\ Unwrap(first.manifest).artifact # Unwrap(last.manifest).artifact
                          /\ read_manifest(fs, Unwrap(first.manifest_path))
                               # Ok(Unwrap(first.manifest))
                          /\ \A i \in 1..Len(first.artifacts) :
                                /\ first.artifacts[i].cached_path \in DOMAIN fs
                                /\ \A j \in 1..Len(last.artifacts) :
                                      first.artifacts[i].cached_path
                                         # last.artifacts[j].cached_path
                                /\ StartsWith(fs[first.artifacts[i].cached_path].data,
                                              BuiltContent(first.cargo_builder))

C18_Witness ==
    /\ inv["p1"].pc = "done" /\ inv["p2"].pc = "done"
    /\ inv["p1"].build_profile = "Debug" /\ inv["p2"].build_profile = "Release"
    /\ ManifestFiles(fs) = {Unwrap(inv["p2"].manifest_path)}
    /\ read_manifest(fs, Unwrap(inv["p2"].manifest_path)) = Ok(Unwrap(inv["p2"].manifest))
    /\ inv["p1"].artifacts[1].cached_path \in DOMAIN fs

\* The targets of a CrateInfo that discover_artifacts does not skip, in order
LibraryTargetsOf(crate_info) ==
    SelectSeq(crate_info.targets, LAMBDA t : is_library(t.kind))

(***************************************************************************)
(* C19.  Once discovery has succeeded the artifact list holds one artifact *)
(* per library target of the crate, in declaration order; a successful     *)
(* invocation has copied every one of them into the cache; the manifest    *)
(* that is generated and written describes the first artifact only: its    *)
(* kind is that of artifacts[1], its artifact field is the cached path of  *)
(* artifacts[1], never a build-output path and never the path of a later   *)
(* artifact.                                                               *)
(***************************************************************************)
C19_ManifestDescribesFirstArtifact ==
    \A p \in Procs :
       LET r == inv[p]
           libs == LibraryTargetsOf(Unwrap(r.crate_info))
       IN  /\ Len(r.artifacts) > 0
              => /\ Len(r.artifacts) = Len(libs)
                 /\ \A i \in 1..Len(libs) :
                       /\ r.artifacts[i].name = libs[i].name
                       /\ Some(r.artifacts[i].kind) = from_target_kind(libs[i].kind)
                       /\ r.artifacts[i].cached_path
                            = get_cache_path(host, Unwrap(r.discovery),
                                             libs[i].name, r.artifacts[i].kind)
                       /\ StartsWith(r.artifacts[i].original_path,
                                     get_build_directory(host, Unwrap(r.discovery)))
           /\ r.pc = "done"
              => /\ r.cached = Len(r.artifacts)
                 /\ \A i \in 1..Len(r.artifacts) :
                       /\ r.artifacts[i].cached_path \in DOMAIN fs
                       /\ fs[r.artifacts[i].cached_path] = fs[r.artifacts[i].original_path]
                 /\ read_manifest(fs, Unwrap(r.manifest_path)) = Ok(Unwrap(r.manifest))
           /\ IsSome(r.manifest)
              => LET manifest == Unwrap(r.manifest)
                 IN  /\ manifest.kind = kind_as_str(r.artifacts[1].kind)
                     /\ manifest.artifact = r.artifacts[1].cached_path
                     /\ \A i \in 1..Len(r.artifacts) :
                           /\ manifest.artifact # r.artifacts[i].original_path
                           /\ i > 1 => manifest.artifact # r.artifacts[i].cached_path
                           /\ \A j \in 1..Len(manifest.headers) :
                                 /\ manifest.headers[j] # r.artifacts[i].original_path
                                 /\ manifest.headers[j] # r.artifacts[i].cached_path

C19_Witness ==
    /\ inv["p1"].pc = "done"
    /\ Len(inv["p1"].artifacts) = 2
    /\ inv["p1"].artifacts[1].kind # inv["p1"].artifacts[2].kind
    /\ inv["p1"].artifacts[2].cached_path \in DOMAIN fs
    /\ Unwrap(inv["p1"].manifest).artifact = inv["p1"].artifacts[1].cached_path
    /\ read_manifest(fs, Unwrap(inv["p1"].manifest_path)) = Ok(Unwrap(inv["p1"].manifest))

=============================================================================
